---- MODULE Spec2Model ----
(***************************************************************************)
(* Model of the cloud-service selection engine: service-model rules,       *)
(* weight selection, cost estimation, provider scoring and confidence.     *)
(* Every operation of the engine is a pure function of its arguments; the  *)
(* state machine records one call (function name, arguments) and what the  *)
(* call returned or raised.                                                 *)
(*                                                                         *)
(* Numbers.  The engine computes in IEEE-754 binary64 and rounds with      *)
(* Python's round(), which rounds the exact binary value half-to-even.     *)
(* Results that sit on a decimal tie (232.5, 5.54795) are therefore        *)
(* decided by the last bit of the double, so the doubles are modelled      *)
(* exactly: a double is [m, e] with value m * 2^e, m a 53-bit natural held *)
(* as 15-bit limbs (TLC's integers are 32-bit).                            *)
(***************************************************************************)
EXTENDS Integers, Sequences, FiniteSets, TLC

(***************************************************************************)
(* Naturals of any size: little-endian sequences of 15-bit limbs, no high  *)
(* zero limb; <<>> is zero.                                                *)
(***************************************************************************)
Limb == 2^15

RECURSIVE BTrim(_)
BTrim(a) ==
    IF Len(a) > 0 /\ a[Len(a)] = 0 THEN BTrim(SubSeq(a, 1, Len(a) - 1)) ELSE a

RECURSIVE BFromInt(_)
BFromInt(n) ==
    IF n = 0 THEN <<>> ELSE <<n % Limb>> \o BFromInt(n \div Limb)

RECURSIVE BToInt(_)
BToInt(a) ==
    IF a = <<>> THEN 0 ELSE a[1] + Limb * BToInt(Tail(a))

BLimb(a, i) == IF i <= Len(a) THEN a[i] ELSE 0

RECURSIVE BAddFrom(_, _, _, _)
BAddFrom(a, b, i, c) ==
    IF i > Len(a) /\ i > Len(b)
    THEN (IF c = 0 THEN <<>> ELSE <<c>>)
    ELSE LET s == BLimb(a, i) + BLimb(b, i) + c
         IN  <<s % Limb>> \o BAddFrom(a, b, i + 1, s \div Limb)

BAdd(a, b) == BAddFrom(a, b, 1, 0)

RECURSIVE BSubFrom(_, _, _, _)
BSubFrom(a, b, i, borrow) ==
    IF i > Len(a)
    THEN <<>>
    ELSE LET d == a[i] - BLimb(b, i) - borrow
         IN  <<d % Limb>> \o BSubFrom(a, b, i + 1, IF d < 0 THEN 1 ELSE 0)

\* a - b, for a >= b
BSub(a, b) == BTrim(BSubFrom(a, b, 1, 0))

RECURSIVE BCmpFrom(_, _, _)
BCmpFrom(a, b, i) ==
    IF i = 0 THEN 0
    ELSE IF a[i] > b[i] THEN 1
    ELSE IF a[i] < b[i] THEN -1
    ELSE BCmpFrom(a, b, i - 1)

\* -1, 0 or 1 as a < b, a = b, a > b
BCmp(a, b) ==
    IF Len(a) > Len(b) THEN 1
    ELSE IF Len(a) < Len(b) THEN -1
    ELSE BCmpFrom(a, b, Len(a))

RECURSIVE BMulIntFrom(_, _, _, _)
BMulIntFrom(a, k, i, c) ==
    IF i > Len(a)
    THEN (IF c = 0 THEN <<>> ELSE <<c>>)
    ELSE LET s == a[i] * k + c
         IN  <<s % Limb>> \o BMulIntFrom(a, k, i + 1, s \div Limb)

\* a * k, for 0 <= k < 2^15
BMulInt(a, k) == BTrim(BMulIntFrom(a, k, 1, 0))

BShiftLimbs(a, n) == IF a = <<>> THEN <<>> ELSE [i \in 1..n |-> 0] \o a

\* a * 2^n
BShl(a, n) == BShiftLimbs(BMulInt(a, 2^(n % 15)), n \div 15)

RECURSIVE BMulFrom(_, _, _)
BMulFrom(a, b, i) ==
    IF i > Len(b)
    THEN <<>>
    ELSE BAdd(BShiftLimbs(BMulInt(a, b[i]), i - 1), BMulFrom(a, b, i + 1))

BMul(a, b) == BMulFrom(a, b, 1)

RECURSIVE BDivFrom(_, _, _, _)
BDivFrom(a, k, i, r) ==
    IF i = 0
    THEN [q |-> <<>>, r |-> r]
    ELSE LET cur  == r * Limb + a[i]
             rest == BDivFrom(a, k, i - 1, cur % k)
         IN  [q |-> rest.q \o <<cur \div k>>, r |-> rest.r]

\* quotient q and remainder r of a by k, for 0 < k < 2^15
BDivInt(a, k) ==
    LET d == BDivFrom(a, k, Len(a), 0) IN [q |-> BTrim(d.q), r |-> d.r]

\* floor(a / 2^n)
BShr(a, n) ==
    LET drop == n \div 15
    IN  IF drop >= Len(a) THEN <<>>
        ELSE BDivInt(SubSeq(a, drop + 1, Len(a)), 2^(n % 15)).q

RECURSIVE BitLen(_)
BitLen(n) == IF n = 0 THEN 0 ELSE 1 + BitLen(n \div 2)

BBits(a) == IF a = <<>> THEN 0 ELSE 15 * (Len(a) - 1) + BitLen(a[Len(a)])

BOdd(a) == a # <<>> /\ a[1] % 2 = 1

\* the quotient q = floor(N / 2^sh) moved up by one when the remainder is
\* above half of 2^sh, or is the half and the tie goes up (something sticky
\* lies below, or q is odd)
RoundQuotient(q, N, sh, sticky) ==
    IF BCmp(BSub(N, BShl(q, sh)), BShl(<<1>>, sh - 1))
           >= (IF sticky \/ BOdd(q) THEN 0 ELSE 1)
    THEN BAdd(q, <<1>>)
    ELSE q

\* (N + f) / 2^sh rounded to the nearest natural, ties to even, where
\* 0 <= f < 1 and sticky says f > 0
RoundShift(N, sh, sticky) ==
    IF sh = 0 THEN N ELSE RoundQuotient(BShr(N, sh), N, sh, sticky)

(***************************************************************************)
(* binary64: a non-negative double is [m, e], value m * 2^e with           *)
(* 2^52 <= m < 2^53, or FZero.  The engine never leaves the normal range   *)
(* and never forms a negative number on the paths modelled with doubles.   *)
(***************************************************************************)
FZero == [m |-> <<>>, e |-> 0]

\* a significand r of 53 bits, or of 54 after a rounding carried (r = 2^53)
FCarry(r, e) ==
    IF BBits(r) > 53 THEN [m |-> BShr(r, 1), e |-> e + 1] ELSE [m |-> r, e |-> e]

\* the double nearest (N + f) * 2^e for N of b bits
FNormal(N, e, sticky, b) ==
    IF b <= 53
    THEN [m |-> BShl(N, 53 - b), e |-> e - (53 - b)]
    ELSE FCarry(RoundShift(N, b - 53, sticky), e + (b - 53))

\* the double nearest (N + f) * 2^e (round-to-nearest, ties-to-even)
FRound(N, e, sticky) ==
    IF N = <<>> THEN FZero ELSE FNormal(N, e, sticky, BBits(N))

FFromInt(n) == FRound(BFromInt(n), 0, FALSE)

\* float(c) / float(k), and the double a decimal literal c/k denotes
\* (0.2 is FRatio(2, 10)), for naturals c and 0 < k < 2^15
FRatio(c, k) ==
    LET d == BDivInt(BShl(BFromInt(c), 75), k)
    IN  FRound(d.q, -75, d.r # 0)

FMinE(x, y) == IF x.e < y.e THEN x.e ELSE y.e

FAlign(x, e) == BShl(x.m, x.e - e)

FAdd(x, y) ==
    IF x.m = <<>> THEN y
    ELSE IF y.m = <<>> THEN x
    ELSE LET e == FMinE(x, y)
         IN  FRound(BAdd(FAlign(x, e), FAlign(y, e)), e, FALSE)

FCmp(x, y) ==
    IF x.m = <<>> /\ y.m = <<>> THEN 0
    ELSE IF x.m = <<>> THEN -1
    ELSE IF y.m = <<>> THEN 1
    ELSE LET e == FMinE(x, y)
         IN  BCmp(FAlign(x, e), FAlign(y, e))

\* x - y, for x >= y
FSub(x, y) ==
    IF y.m = <<>> THEN x
    ELSE LET e == FMinE(x, y)
         IN  FRound(BSub(FAlign(x, e), FAlign(y, e)), e, FALSE)

FMul(x, y) ==
    IF x.m = <<>> \/ y.m = <<>> THEN FZero
    ELSE FRound(BMul(x.m, y.m), x.e + y.e, FALSE)

\* x / float(k), for 0 < k < 2^15
FDivInt(x, k) ==
    IF x.m = <<>> THEN FZero
    ELSE LET d == BDivInt(BShl(x.m, 30), k)
         IN  FRound(d.q, x.e - 30, d.r # 0)

\* Python round(x, ndigits) for a double x, given as the integer
\* round(x, ndigits) * p with p = 10^ndigits < 2^15: the exact binary value
\* of x is rounded half-to-even to ndigits decimals
PyRound(x, p) ==
    IF x.m = <<>> THEN 0
    ELSE IF x.e >= 0 THEN BToInt(BShl(BMulInt(x.m, p), x.e))
    ELSE BToInt(RoundShift(BMulInt(x.m, p), -x.e, FALSE))

(***************************************************************************)
(* Python values.  Every value is a record [t, s, n]: t is the type, s the *)
(* text of a str, n the number of an int.  A dict is a TLA+ function from  *)
(* its keys to values; an argument that should be a dict is [t, d] with d  *)
(* the dict when t = "dict".                                               *)
(***************************************************************************)
PyNone == [t |-> "none", s |-> "", n |-> 0]

PyStr(x) == [t |-> "str", s |-> x, n |-> 0]

PyInt(k) == [t |-> "int", s |-> "", n |-> k]

\* 10**400, an int too large for a double: float(v) raises OverflowError
PyHugeInt == [t |-> "int", s |-> "huge", n |-> 0]

PyInf == [t |-> "float", s |-> "inf", n |-> 0]

PyNaN == [t |-> "float", s |-> "nan", n |-> 0]

\* the empty list []: not a str, not a number, not hashable, falsy
PyList == [t |-> "list", s |-> "", n |-> 0]

EmptyDict == <<>>

PyDict(d) == [t |-> "dict", d |-> d]

NotADict == [t |-> "list", d |-> EmptyDict]

NoneArg == [t |-> "none", d |-> EmptyDict]

\* dict.get(key): None when the key is absent
Get(d, key) == IF key \in DOMAIN d THEN d[key] ELSE PyNone

\* dict.get(key, default)
GetOr(d, key, default) == IF key \in DOMAIN d THEN d[key] ELSE default

\* truth value of a value, as `x or y` tests it: None, "", 0, the empty
\* list and the empty dict are falsy
Truthy(v) ==
    CASE v.t = "none" -> FALSE
      [] v.t = "str"  -> v.s # ""
      [] v.t = "int"  -> v.s = "huge" \/ v.n # 0
      [] v.t = "list" -> FALSE
      [] v.t = "dict" -> DOMAIN v.d # {}
      [] OTHER        -> TRUE

(***************************************************************************)
(* str.strip(), str.lower() and str.upper(), character by character. A     *)
(* string of this module holds the code points below 256 and those whose   *)
(* low byte is 128 or more, which are the ones a string literal can spell.  *)
(* Where str.lower() yields any other character, the lowered string holds   *)
(* its name U+XXXX (four capital hexadecimal digits) in its place, and the  *)
(* string str.upper() returns holds u+xxxx: a lowered string holds no       *)
(* capital U and a raised one no small u but in such a name.                *)
(***************************************************************************)

CharAt(s, i) == SubSeq(s, i, i)

CharsOf(s) == {CharAt(s, i) : i \in 1..Len(s)}

IndexIn(s, c) == CHOOSE i \in 1..Len(s) : CharAt(s, i) = c

\* the characters str.strip() removes: those str.isspace() holds of
Whitespace ==
    {"\t", "\n", "", "\f", "\r", "", "", "", "", " ", "", " ", " "}

UpperChars == "ABCDEFGHIJKLMNOPQRSTUVWXYZ"

LowerChars == "abcdefghijklmnopqrstuvwxyz"

\* the characters beyond ASCII that str.lower() changes, and under each
\* (LowerImage) what it makes of it
LowerSource ==
       "ÀÁÂÃÄÅÆÇÈÉÊËÌÍÎÏÐÑÒÓÔÕÖØÙÚÛÜÝÞƂƄƇƋƎƑƘƠƢƤƦƧƩƬƮƯƱƲƳƵƷƸƼǄǅǇǈǊǋǍ"
    \o "ǏǑǓǕǗǙǛǞǠǢǤǦǨǪǬǮǱǲǴǶǷǸǺǼǾΆΈΉΊΌΎΏΑΒΓΔΕΖΗΘΙΚΛΜΝΞΟΠΡΣΤΥΦΧΨΩΪΫϏϘ"
    \o "ϚϜϞϠϢϤϦϨϪϬϮϴϷϹϺҀҊҌҎҐҒҔҖҘҚҜҞҠҢҤҦҨҪҬҮҰҲҴҶҸҺҼҾӀӁӃӅӇӉӋӍӐӒӔӖӘӚӜӞӠ"
    \o "ӢӤӦӨӪӬӮӰӲӴӶӸӺӼӾᎰᎱᎲᎳᎴᎵᎶᎷᎸᎹᎺᎻᎼᎽᎾᎿᏀᏁᏂᏃᏄᏅᏆᏇᏈᏉᏊᏋᏌᏍᏎᏏᏐᏑᏒᏓᏔᏕᏖᏗᏘᏙᏚᏛᏜ"
    \o "ᏝᏞᏟᏠᏡᏢᏣᏤᏥᏦᏧᏨᏩᏪᏫᏬᏭᏮᏯᏰᏱᏲᏳᏴᏵᲐᲑᲒᲓᲔᲕᲖᲗᲘᲙᲚᲛᲜᲝᲞᲟᲠᲡᲢᲣᲤᲥᲦᲧᲨᲩᲪᲫᲬᲭᲮᲯᲰᲱᲲ"
    \o "ᲳᲴᲵᲶᲷᲸᲹᲺᲽᲾᲿẀẂẄẆẈẊẌẎẐẒẔẞẠẢẤẦẨẪẬẮẰẲẴẶẸẺẼẾỀỂỄỆỈỊỌỎỐỒỔỖỘỚỜỞỠỢỤỦỨ"
    \o "ỪỬỮỰỲỴỶỸỺỼỾᾈᾉᾊᾋᾌᾍᾎᾏᾘᾙᾚᾛᾜᾝᾞᾟᾨᾩᾪᾫᾬᾭᾮᾯᾸᾹᾼῌῘῙῨῩῬῼↃⒶⒷⒸⒹⒺⒻⒼⒽⒾⒿⓀⓁⓂⓃ"
    \o "ⓄⓅⓆⓇⓈⓉⓊⓋⓌⓍⓎⓏⲀⲂⲄⲆⲈⲊⲌⲎⲐⲒⲔⲖⲘⲚⲜⲞⲠⲢⲤⲦⲨⲪⲬⲮⲰⲲⲴⲶⲸⲺⲼⲾⳀⳂⳄⳆⳈⳊⳌⳎⳐⳒⳔⳖⳘⳚⳜⳞ"
    \o "ⳠⳢⳫⳭⳲꚀꚂꚄꚆꚈꚊꚌꚎꚐꚒꚔꚖꚘꚚꞀꞂꞄꞆꞋꞐꞒꞖꞘꞚꞜꞞꞠꞢꞤꞦꞨꞰꞱꞲꞴꞶꞸꞺꞼꞾꟀꟂꟄꟅꟆꟇꟉꟐꟖꟘꟵ"

LowerImage ==
       "àáâãäåæçèéêëìíîïðñòóôõöøùúûüýþƃƅƈƌǝƒƙơƣƥʀƨʃƭʈưʊʋƴƶʒƹƽǆǆǉǉǌǌǎ"
    \o "ǐǒǔǖǘǚǜǟǡǣǥǧǩǫǭǯǳǳǵƕƿǹǻǽǿάέήίόύώαβγδεζηθικλμνξοπρστυφχψωϊϋϗϙ"
    \o "ϛϝϟϡϣϥϧϩϫϭϯθϸϲϻҁҋҍҏґғҕҗҙқҝҟҡңҥҧҩҫҭүұҳҵҷҹһҽҿӏӂӄӆӈӊӌӎӑӓӕӗәӛӝӟӡ"
    \o "ӣӥӧөӫӭӯӱӳӵӷӹӻӽӿꮀꮁꮂꮃꮄꮅꮆꮇꮈꮉꮊꮋꮌꮍꮎꮏꮐꮑꮒꮓꮔꮕꮖꮗꮘꮙꮚꮛꮜꮝꮞꮟꮠꮡꮢꮣꮤꮥꮦꮧꮨꮩꮪꮫꮬ"
    \o "ꮭꮮꮯꮰꮱꮲꮳꮴꮵꮶꮷꮸꮹꮺꮻꮼꮽꮾꮿᏸᏹᏺᏻᏼᏽაბგდევზთიკლმნოპჟრსტუფქღყშჩცძწჭხჯჰჱჲ"
    \o "ჳჴჵჶჷჸჹჺჽჾჿẁẃẅẇẉẋẍẏẑẓẕßạảấầẩẫậắằẳẵặẹẻẽếềểễệỉịọỏốồổỗộớờởỡợụủứ"
    \o "ừửữựỳỵỷỹỻỽỿᾀᾁᾂᾃᾄᾅᾆᾇᾐᾑᾒᾓᾔᾕᾖᾗᾠᾡᾢᾣᾤᾥᾦᾧᾰᾱᾳῃῐῑῠῡῥῳↄⓐⓑⓒⓓⓔⓕⓖⓗⓘⓙⓚⓛⓜⓝ"
    \o "ⓞⓟⓠⓡⓢⓣⓤⓥⓦⓧⓨⓩⲁⲃⲅⲇⲉⲋⲍⲏⲑⲓⲕⲗⲙⲛⲝⲟⲡⲣⲥⲧⲩⲫⲭⲯⲱⲳⲵⲷⲹⲻⲽⲿⳁⳃⳅⳇⳉⳋⳍⳏⳑⳓⳕⳗⳙⳛⳝⳟ"
    \o "ⳡⳣⳬⳮⳳꚁꚃꚅꚇꚉꚋꚍꚏꚑꚓꚕꚗꚙꚛꞁꞃꞅꞇꞌꞑꞓꞗꞙꞛꞝꞟꞡꞣꞥꞧꞩʞʇʝꞵꞷꞹꞻꞽꞿꟁꟃꞔʂᶎꟈꟊꟑꟗꟙꟶ"

\* the characters str.lower() changes into one no literal can spell, and
\* (LowerNamedImage) what each becomes, that one written by its name
LowerNamedSource ==
       "ƁƆƉƊƏƐƓƔƖƗƜƝƟϽϾϿႠႡႢႣႤႥႦႧႨႩႪႫႬႭႮႯႰႱႲႳႴႵႶႷႸႹႺႻႼႽႾႿჀჁჂჃჄჅჇჍᎠᎡᎢᎣ"
    \o "ᎤᎥᎦᎧᎨᎩᎪᎫᎬᎭᎮᎯᾺΆῈΈῊΉῚΊῪΎῸΌῺΏꞍꞪꞫꞬꞭꞮꞳ"

LowerNamedImage ==
    <<"U+0253", "U+0254", "U+0256", "U+0257", "U+0259", "U+025B",
      "U+0260", "U+0263", "U+0269", "U+0268", "U+026F", "U+0272",
      "U+0275", "U+037B", "U+037C", "U+037D", "U+2D00", "U+2D01",
      "U+2D02", "U+2D03", "U+2D04", "U+2D05", "U+2D06", "U+2D07",
      "U+2D08", "U+2D09", "U+2D0A", "U+2D0B", "U+2D0C", "U+2D0D",
      "U+2D0E", "U+2D0F", "U+2D10", "U+2D11", "U+2D12", "U+2D13",
      "U+2D14", "U+2D15", "U+2D16", "U+2D17", "U+2D18", "U+2D19",
      "U+2D1A", "U+2D1B", "U+2D1C", "U+2D1D", "U+2D1E", "U+2D1F",
      "U+2D20", "U+2D21", "U+2D22", "U+2D23", "U+2D24", "U+2D25",
      "U+2D27", "U+2D2D", "U+AB70", "U+AB71", "U+AB72", "U+AB73",
      "U+AB74", "U+AB75", "U+AB76", "U+AB77", "U+AB78", "U+AB79",
      "U+AB7A", "U+AB7B", "U+AB7C", "U+AB7D", "U+AB7E", "U+AB7F",
      "U+1F70", "U+1F71", "U+1F72", "U+1F73", "U+1F74", "U+1F75",
      "U+1F76", "U+1F77", "U+1F7A", "U+1F7B", "U+1F78", "U+1F79",
      "U+1F7C", "U+1F7D", "U+0265", "U+0266", "U+025C", "U+0261",
      "U+026C", "U+026A", "U+AB53">>

\* the characters beyond ASCII that str.upper() changes into one character,
\* and under each (UpperImage) that character
UpperSource ==
       "µàáâãäåæçèéêëìíîïðñòóôõöøùúûüýþƃƅƈƌƒƕƙơƣƥƨƭưƴƶƹƽƿǅǆǈǉǋǌǎǐǒǔǖ"
    \o "ǘǚǜǝǟǡǣǥǧǩǫǭǯǲǳǵǹǻǽǿʀʂʃʇʈʊʋʒʝʞάέήίαβγδεζηθικλμνξοπρςστυφχψωϊ"
    \o "ϋόύώϐϑϕϖϗϙϛϝϟϡϣϥϧϩϫϭϯϰϱϲϵϸϻҁҋҍҏґғҕҗҙқҝҟҡңҥҧҩҫҭүұҳҵҷҹһҽҿӂӄӆӈӊ"
    \o "ӌӎӏӑӓӕӗәӛӝӟӡӣӥӧөӫӭӯӱӳӵӷӹӻӽӿაბგდევზთიკლმნოპჟრსტუფქღყშჩცძწჭხჯჰ"
    \o "ჱჲჳჴჵჶჷჸჹჺჽჾჿᏸᏹᏺᏻᏼᏽᶎẁẃẅẇẉẋẍẏẑẓẕạảấầẩẫậắằẳẵặẹẻẽếềểễệỉịọỏốồổỗộ"
    \o "ớờởỡợụủứừửữựỳỵỷỹỻỽỿᾰᾱιῐῑῠῡῥↄⓐⓑⓒⓓⓔⓕⓖⓗⓘⓙⓚⓛⓜⓝⓞⓟⓠⓡⓢⓣⓤⓥⓦⓧⓨⓩⲁⲃⲅⲇⲉⲋ"
    \o "ⲍⲏⲑⲓⲕⲗⲙⲛⲝⲟⲡⲣⲥⲧⲩⲫⲭⲯⲱⲳⲵⲷⲹⲻⲽⲿⳁⳃⳅⳇⳉⳋⳍⳏⳑⳓⳕⳗⳙⳛⳝⳟⳡⳣⳬⳮⳳꚁꚃꚅꚇꚉꚋꚍꚏꚑꚓꚕꚗꚙ"
    \o "ꚛꞁꞃꞅꞇꞌꞑꞓꞔꞗꞙꞛꞝꞟꞡꞣꞥꞧꞩꞵꞷꞹꞻꞽꞿꟁꟃꟈꟊꟑꟗꟙꟶꮀꮁꮂꮃꮄꮅꮆꮇꮈꮉꮊꮋꮌꮍꮎꮏꮐꮑꮒꮓꮔꮕꮖꮗꮘꮙꮚ"
    \o "ꮛꮜꮝꮞꮟꮠꮡꮢꮣꮤꮥꮦꮧꮨꮩꮪꮫꮬꮭꮮꮯꮰꮱꮲꮳꮴꮵꮶꮷꮸꮹꮺꮻꮼꮽꮾꮿ"

UpperImage ==
       "ΜÀÁÂÃÄÅÆÇÈÉÊËÌÍÎÏÐÑÒÓÔÕÖØÙÚÛÜÝÞƂƄƇƋƑǶƘƠƢƤƧƬƯƳƵƸƼǷǄǄǇǇǊǊǍǏǑǓǕ"
    \o "ǗǙǛƎǞǠǢǤǦǨǪǬǮǱǱǴǸǺǼǾƦꟅƩꞱƮƱƲƷꞲꞰΆΈΉΊΑΒΓΔΕΖΗΘΙΚΛΜΝΞΟΠΡΣΣΤΥΦΧΨΩΪ"
    \o "ΫΌΎΏΒΘΦΠϏϘϚϜϞϠϢϤϦϨϪϬϮΚΡϹΕϷϺҀҊҌҎҐҒҔҖҘҚҜҞҠҢҤҦҨҪҬҮҰҲҴҶҸҺҼҾӁӃӅӇӉ"
    \o "ӋӍӀӐӒӔӖӘӚӜӞӠӢӤӦӨӪӬӮӰӲӴӶӸӺӼӾᲐᲑᲒᲓᲔᲕᲖᲗᲘᲙᲚᲛᲜᲝᲞᲟᲠᲡᲢᲣᲤᲥᲦᲧᲨᲩᲪᲫᲬᲭᲮᲯᲰ"
    \o "ᲱᲲᲳᲴᲵᲶᲷᲸᲹᲺᲽᲾᲿᏰᏱᏲᏳᏴᏵꟆẀẂẄẆẈẊẌẎẐẒẔẠẢẤẦẨẪẬẮẰẲẴẶẸẺẼẾỀỂỄỆỈỊỌỎỐỒỔỖỘ"
    \o "ỚỜỞỠỢỤỦỨỪỬỮỰỲỴỶỸỺỼỾᾸᾹΙῘῙῨῩῬↃⒶⒷⒸⒹⒺⒻⒼⒽⒾⒿⓀⓁⓂⓃⓄⓅⓆⓇⓈⓉⓊⓋⓌⓍⓎⓏⲀⲂⲄⲆⲈⲊ"
    \o "ⲌⲎⲐⲒⲔⲖⲘⲚⲜⲞⲠⲢⲤⲦⲨⲪⲬⲮⲰⲲⲴⲶⲸⲺⲼⲾⳀⳂⳄⳆⳈⳊⳌⳎⳐⳒⳔⳖⳘⳚⳜⳞⳠⳢⳫⳭⳲꚀꚂꚄꚆꚈꚊꚌꚎꚐꚒꚔꚖꚘ"
    \o "ꚚꞀꞂꞄꞆꞋꞐꞒꟄꞖꞘꞚꞜꞞꞠꞢꞤꞦꞨꞴꞶꞸꞺꞼꞾꟀꟂꟇꟉꟐꟖꟘꟵᎰᎱᎲᎳᎴᎵᎶᎷᎸᎹᎺᎻᎼᎽᎾᎿᏀᏁᏂᏃᏄᏅᏆᏇᏈᏉᏊ"
    \o "ᏋᏌᏍᏎᏏᏐᏑᏒᏓᏔᏕᏖᏗᏘᏙᏚᏛᏜᏝᏞᏟᏠᏡᏢᏣᏤᏥᏦᏧᏨᏩᏪᏫᏬᏭᏮᏯ"

\* the characters str.upper() changes into several, and (UpperLongImage)
\* what each becomes
UpperLongSource ==
       "ßẚᾲᾳᾴᾼῂῃῄῌῲῳῴῼ"

UpperLongImage ==
    <<"SS", "Aʾ", "ᾺΙ", "ΑΙ", "ΆΙ", "ΑΙ", "ῊΙ", "ΗΙ",
      "ΉΙ", "ΗΙ", "ῺΙ", "ΩΙ", "ΏΙ", "ΩΙ">>

\* the characters whose str.upper() holds a character no literal can spell,
\* and (UpperNamedImage) what each becomes, that character written by its name
UpperNamedSource ==
       "ÿƀƚƞǰʉʌΐΰϳրցւփքօֆևᲀᲁᲂᲃᲄᲅᲆᲇᲈẖẗẘẙẛᾀᾁᾂᾃᾄᾅᾆᾇᾈᾉᾊᾋᾌᾍᾎᾏᾐᾑᾒᾓᾔᾕᾖᾗᾘᾙᾚᾛ"
    \o "ᾜᾝᾞᾟᾠᾡᾢᾣᾤᾥᾦᾧᾨᾩᾪᾫᾬᾭᾮᾯᾶᾷῆῇῒΐῖῗῢΰῤῦῧῶῷ"

UpperNamedImage ==
    <<"u+0178", "u+0243", "u+023d", "u+0220", "Ju+030c", "u+0244",
      "u+0245", "Ιu+0308u+0301", "Υu+0308u+0301", "u+037f", "u+0550", "u+0551",
      "u+0552", "u+0553", "u+0554", "u+0555", "u+0556", "u+0535u+0552",
      "u+0412", "u+0414", "u+041e", "u+0421", "u+0422", "u+0422",
      "u+042a", "u+0462", "u+a64a", "Hu+0331", "Tu+0308", "Wu+030a",
      "Yu+030a", "u+1e60", "u+1f08Ι", "u+1f09Ι", "u+1f0aΙ", "u+1f0bΙ",
      "u+1f0cΙ", "u+1f0dΙ", "u+1f0eΙ", "u+1f0fΙ", "u+1f08Ι", "u+1f09Ι",
      "u+1f0aΙ", "u+1f0bΙ", "u+1f0cΙ", "u+1f0dΙ", "u+1f0eΙ", "u+1f0fΙ",
      "u+1f28Ι", "u+1f29Ι", "u+1f2aΙ", "u+1f2bΙ", "u+1f2cΙ", "u+1f2dΙ",
      "u+1f2eΙ", "u+1f2fΙ", "u+1f28Ι", "u+1f29Ι", "u+1f2aΙ", "u+1f2bΙ",
      "u+1f2cΙ", "u+1f2dΙ", "u+1f2eΙ", "u+1f2fΙ", "u+1f68Ι", "u+1f69Ι",
      "u+1f6aΙ", "u+1f6bΙ", "u+1f6cΙ", "u+1f6dΙ", "u+1f6eΙ", "u+1f6fΙ",
      "u+1f68Ι", "u+1f69Ι", "u+1f6aΙ", "u+1f6bΙ", "u+1f6cΙ", "u+1f6dΙ",
      "u+1f6eΙ", "u+1f6fΙ", "Αu+0342", "Αu+0342Ι", "Ηu+0342", "Ηu+0342Ι",
      "Ιu+0308u+0300", "Ιu+0308u+0301", "Ιu+0342", "Ιu+0308u+0342", "Υu+0308u+0300", "Υu+0308u+0301",
      "Ρu+0313", "Υu+0342", "Υu+0308u+0342", "Ωu+0342", "Ωu+0342Ι">>

\* the characters the final-sigma rule of str.lower() skips (case-ignorable)
CaseIgnorableChars ==
       ".:^`'¨­¯´·¸ʰʱʲʳʴʵʶʷʸʹʺʻʼʽʾʿˀˁ˂˃˄˅ˆˇˈˉˊˋˌˍˎˏːˑ˒˓˔˕˖˗˘˙˚˛˜˝˞˟ˠ"
    \o "ˡˢˣˤ˥˦˧˨˩˪˫ˬ˭ˮ˯˰˱˲˳˴˵˶˷˸˹˺˻˼˽˾˿΄΅·҃҄҅҆҇҈҉֑֖֛֢֣֚֒֓֔֕֗֘֙֜֝֞֟֠֡"
    \o "ְֱֲֳִֵֶַָׇֹֺֻּֽֿׁׂ֤֥֦֧֪ׅ֭֮֨֩֫֬֯ׄ״ۖۗۘۙۚۛۜ۝ۣ۟۠ۡۢۤۥۦ۪ۭۧۨ۫۬ަާިީު"
    \o "ޫެޭޮޯް߲߫߬߭߮߯߰߱߳ߴߵߺ߽࢈࢐࢑࢙࢚࢛࢘࢜࢝࢞࢟ࣉ࣏࣐࣑࣒࣓࣊࣋࣌࣍࣎ࣔࣕࣖࣗࣘࣙࣚࣛࣜࣝࣞࣟ࣠࣡࣢ࣣࣦࣤࣥ"
    \o "ࣰࣱࣲࣩ࣭࣮࣯ࣶࣹࣺࣧࣨ࣪࣫࣬ࣳࣴࣵࣷࣸࣻࣼࣽࣾࣿঁ়ুূৃৄ্ৢৣ৾ઁં઼ુૂૃૄૅેૈ્ૢૣૺૻૼ૽૾૿ஂீ்ಁ಼ಿ"
    \o "ೆೌ್ೢೣඁ්ිීුූັິີຶື຺ຸູົຼໆ່້໊໋໌ໍ྄ཱྀྀྂྃ྆྇ྍྎྏྐྑྒྒྷྔྕྖྗྙྚྛྜྜྷྞྟྠྡྡྷྣྤྥྦ"
    \o "ྦྷྨྩྪྫྫྷྭྮྯྰྱྲླྴྵྶྷྸྐྵྺྻྼ࿆ႂႅႆႍႝჼ឴឵ិីឹឺុូួំ៉៊់៌៍៎៏័៑្៓ៗ៝ᢅᢆᢩᪧ᪰᪱᪲᪳"
    \o "᪵᪶᪷᪸᪹᪺᪽᪴᪻᪼᪾ᪿᫀ᫃᫄᫊᫁᫂᫅᫆᫇᫈᫉᫋ᫌᫍᫎᮀᮁᮢᮣᮤᮥᮨᮩ᮫ᮬᮭ᯦ᯨᯩᯭᯯᯰᯱ᳔᳕᳖᳗᳘᳙᳜᳝᳞᳟᳐᳑᳒᳚᳛"
    \o "᳢᳣᳤᳥᳦᳧᳨᳭᳠᳴᳸᳹ᶛᶜᶝᶞᶟᶠᶡᶢᶣᶤᶥᶦᶧᶨᶩᶪᶫᶬᶭᶮᶯᶰᶱᶲᶳᶴᶵᶶᶷᶸᶹᶺᶻᶼᶽᶾᶿ᷂᷊᷀᷁᷃᷄᷅᷆᷇᷈᷉"
    \o "᷐᷎᷺᷏᷹᷽᷿᷷᷸᷋᷌᷑᷒ᷓᷔᷕᷖᷗᷘᷙᷚᷛᷜᷝᷞᷟᷠᷡᷢᷣᷤᷥᷦᷧᷨᷩᷪᷫᷬᷭᷮᷯᷰᷱᷲᷳᷴ᷵᷻᷾᷶᷼᷍᾽᾿῀῁῍῎῏"
    \o "῝῞῟῭΅`´῾ₐₑₒₓₔₕₖₗₘₙₚₛₜ⃒⃓⃘⃙⃚⃐⃑⃔⃕⃖⃗⃛⃜⃝⃞⃟⃠⃡⃢⃣⃤⃥⃦⃪⃫⃨⃬⃭⃮⃯⃧⃩⃰⳯⳰⳱ⷠⷡⷢ"
    \o "゙゚ⷣⷤⷥⷦⷧⷨⷩⷪⷫⷬⷭⷮⷯⷰⷱⷲⷳⷴⷵⷶⷷⷸⷹⷺⷻⷼⷽⷾⷿ゛゜ゝゞーヽヾꓸꓹꓺꓻꓼꓽꚜꚝꚞꚟ꛰꛱ꞈ꞉꞊ꟲꟳꟴꟸꟹ꣄ꣅ"
    \o "꣠꣡꣢꣣꣤꣥꣦꣧꣨꣩꣪꣫꣬꣭꣮꣯꣰꣱ꣿꦀꦁꦂ꦳ꦶꦷꦸꦹꦼꦽꧏꧥꧦꪴꪰꪲꪳꪷꪸꪾ꪿꫁ꫝꫬꫭꫳꫴ꫶ꯥꯨ꯭﮲﮳﮴﮵﮶﮷﮸﮹﮺﮻"
    \o "﮼﮽﮾﮿﯀﯁﯂﻿ﾞﾟ￣￹￺￻"

\* the cased characters among those it does not skip
CasedChars ==
       "ABCDEFGHIJKLMNOPQRSTUVWXYZabcdefghijklmnopqrstuvwxyzªµºÀÁÂÃÄ"
    \o "ÅÆÇÈÉÊËÌÍÎÏÐÑÒÓÔÕÖØÙÚÛÜÝÞßàáâãäåæçèéêëìíîïðñòóôõöøùúûüýþÿƀƁƂ"
    \o "ƃƄƅƆƇƈƉƊƋƌƍƎƏƐƑƒƓƔƕƖƗƘƙƚƛƜƝƞƟƠơƢƣƤƥƦƧƨƩƪƫƬƭƮƯưƱƲƳƴƵƶƷƸƹƺƼƽƾƿ"
    \o "ǄǅǆǇǈǉǊǋǌǍǎǏǐǑǒǓǔǕǖǗǘǙǚǛǜǝǞǟǠǡǢǣǤǥǦǧǨǩǪǫǬǭǮǯǰǱǲǳǴǵǶǷǸǹǺǻǼǽǾǿ"
    \o "ʀʁʂʃʄʅʆʇʈʉʊʋʌʍʎʏʐʑʒʓʕʖʗʘʙʚʛʜʝʞʟʠʡʢʣʤʥʦʧʨʩʪʫʬʭʮʯΆΈΉΊΌΎΏΐΑΒΓΔΕ"
    \o "ΖΗΘΙΚΛΜΝΞΟΠΡΣΤΥΦΧΨΩΪΫάέήίΰαβγδεζηθικλμνξοπρςστυφχψωϊϋόύώϏϐϑϒ"
    \o "ϓϔϕϖϗϘϙϚϛϜϝϞϟϠϡϢϣϤϥϦϧϨϩϪϫϬϭϮϯϰϱϲϳϴϵϷϸϹϺϻϼϽϾϿҀҁҊҋҌҍҎҏҐґҒғҔҕҖҗ"
    \o "ҘҙҚқҜҝҞҟҠҡҢңҤҥҦҧҨҩҪҫҬҭҮүҰұҲҳҴҵҶҷҸҹҺһҼҽҾҿӀӁӂӃӄӅӆӇӈӉӊӋӌӍӎӏӐӑӒӓ"
    \o "ӔӕӖӗӘәӚӛӜӝӞӟӠӡӢӣӤӥӦӧӨөӪӫӬӭӮӯӰӱӲӳӴӵӶӷӸӹӺӻӼӽӾӿրցւփքօֆևֈႠႡႢႣႤႥႦ"
    \o "ႧႨႩႪႫႬႭႮႯႰႱႲႳႴႵႶႷႸႹႺႻႼႽႾႿჀჁჂჃჄჅჇჍაბგდევზთიკლმნოპჟრსტუფქღყშჩც"
    \o "ძწჭხჯჰჱჲჳჴჵჶჷჸჹჺჽჾჿᎠᎡᎢᎣᎤᎥᎦᎧᎨᎩᎪᎫᎬᎭᎮᎯᎰᎱᎲᎳᎴᎵᎶᎷᎸᎹᎺᎻᎼᎽᎾᎿᏀᏁᏂᏃᏄᏅᏆᏇᏈ"
    \o "ᏉᏊᏋᏌᏍᏎᏏᏐᏑᏒᏓᏔᏕᏖᏗᏘᏙᏚᏛᏜᏝᏞᏟᏠᏡᏢᏣᏤᏥᏦᏧᏨᏩᏪᏫᏬᏭᏮᏯᏰᏱᏲᏳᏴᏵᏸᏹᏺᏻᏼᏽᲀᲁᲂᲃᲄᲅᲆᲇᲈ"
    \o "ᲐᲑᲒᲓᲔᲕᲖᲗᲘᲙᲚᲛᲜᲝᲞᲟᲠᲡᲢᲣᲤᲥᲦᲧᲨᲩᲪᲫᲬᲭᲮᲯᲰᲱᲲᲳᲴᲵᲶᲷᲸᲹᲺᲽᲾᲿᶀᶁᶂᶃᶄᶅᶆᶇᶈᶉᶊᶋᶌᶍ"
    \o "ᶎᶏᶐᶑᶒᶓᶔᶕᶖᶗᶘᶙᶚẀẁẂẃẄẅẆẇẈẉẊẋẌẍẎẏẐẑẒẓẔẕẖẗẘẙẚẛẜẝẞẟẠạẢảẤấẦầẨẩẪẫẬậẮ"
    \o "ắẰằẲẳẴẵẶặẸẹẺẻẼẽẾếỀềỂểỄễỆệỈỉỊịỌọỎỏỐốỒồỔổỖỗỘộỚớỜờỞởỠỡỢợỤụỦủỨứỪ"
    \o "ừỬửỮữỰựỲỳỴỵỶỷỸỹỺỻỼỽỾỿᾀᾁᾂᾃᾄᾅᾆᾇᾈᾉᾊᾋᾌᾍᾎᾏᾐᾑᾒᾓᾔᾕᾖᾗᾘᾙᾚᾛᾜᾝᾞᾟᾠᾡᾢᾣᾤᾥᾦ"
    \o "ᾧᾨᾩᾪᾫᾬᾭᾮᾯᾰᾱᾲᾳᾴᾶᾷᾸᾹᾺΆᾼιῂῃῄῆῇῈΈῊΉῌῐῑῒΐῖῗῘῙῚΊῠῡῢΰῤῥῦῧῨῩῪΎῬῲῳῴῶῷ"
    \o "ῸΌῺΏῼↃↄⒶⒷⒸⒹⒺⒻⒼⒽⒾⒿⓀⓁⓂⓃⓄⓅⓆⓇⓈⓉⓊⓋⓌⓍⓎⓏⓐⓑⓒⓓⓔⓕⓖⓗⓘⓙⓚⓛⓜⓝⓞⓟⓠⓡⓢⓣⓤⓥⓦⓧⓨⓩⲀ"
    \o "ⲁⲂⲃⲄⲅⲆⲇⲈⲉⲊⲋⲌⲍⲎⲏⲐⲑⲒⲓⲔⲕⲖⲗⲘⲙⲚⲛⲜⲝⲞⲟⲠⲡⲢⲣⲤⲥⲦⲧⲨⲩⲪⲫⲬⲭⲮⲯⲰⲱⲲⲳⲴⲵⲶⲷⲸⲹⲺⲻⲼ"
    \o "ⲽⲾⲿⳀⳁⳂⳃⳄⳅⳆⳇⳈⳉⳊⳋⳌⳍⳎⳏⳐⳑⳒⳓⳔⳕⳖⳗⳘⳙⳚⳛⳜⳝⳞⳟⳠⳡⳢⳣⳤⳫⳬⳭⳮⳲⳳꚀꚁꚂꚃꚄꚅꚆꚇꚈꚉꚊꚋꚌꚍ"
    \o "ꚎꚏꚐꚑꚒꚓꚔꚕꚖꚗꚘꚙꚚꚛꞀꞁꞂꞃꞄꞅꞆꞇꞋꞌꞍꞎꞐꞑꞒꞓꞔꞕꞖꞗꞘꞙꞚꞛꞜꞝꞞꞟꞠꞡꞢꞣꞤꞥꞦꞧꞨꞩꞪꞫꞬꞭꞮꞯꞰꞱ"
    \o "ꞲꞳꞴꞵꞶꞷꞸꞹꞺꞻꞼꞽꞾꞿꟀꟁꟂꟃꟄꟅꟆꟇꟈꟉꟊꟐꟑꟓꟕꟖꟗꟘꟙꟵꟶꟺꮀꮁꮂꮃꮄꮅꮆꮇꮈꮉꮊꮋꮌꮍꮎꮏꮐꮑꮒꮓꮔꮕꮖꮗ"
    \o "ꮘꮙꮚꮛꮜꮝꮞꮟꮠꮡꮢꮣꮤꮥꮦꮧꮨꮩꮪꮫꮬꮭꮮꮯꮰꮱꮲꮳꮴꮵꮶꮷꮸꮹꮺꮻꮼꮽꮾꮿ"

RECURSIVE LStrip(_)
LStrip(s) ==
    IF Len(s) > 0 /\ CharAt(s, 1) \in Whitespace
    THEN LStrip(SubSeq(s, 2, Len(s)))
    ELSE s

RECURSIVE RStrip(_)
RStrip(s) ==
    IF Len(s) > 0 /\ CharAt(s, Len(s)) \in Whitespace
    THEN RStrip(SubSeq(s, 1, Len(s) - 1))
    ELSE s

PyStrip(s) == RStrip(LStrip(s))

LowerTable ==
    [c \in CharsOf(UpperChars \o LowerSource) |->
        CharAt(LowerChars \o LowerImage, IndexIn(UpperChars \o LowerSource, c))]

LowerNamed == CharsOf(LowerNamedSource)

\* c.lower() of a string of one character
LowerChar(c) ==
    IF c \in DOMAIN LowerTable THEN LowerTable[c]
    ELSE IF c \in LowerNamed THEN LowerNamedImage[IndexIn(LowerNamedSource, c)]
    ELSE c

CaseIgnorable == CharsOf(CaseIgnorableChars)

Cased == CharsOf(CasedChars)

\* from index j by steps of step, the first index of s whose character is
\* not case-ignorable: 0 or Len(s) + 1 when there is none
RECURSIVE SkipIgnorable(_, _, _)
SkipIgnorable(s, j, step) ==
    IF j < 1 \/ j > Len(s) THEN j
    ELSE IF CharAt(s, j) \in CaseIgnorable THEN SkipIgnorable(s, j + step, step)
    ELSE j

CasedAt(s, j) == j >= 1 /\ j <= Len(s) /\ CharAt(s, j) \in Cased

\* a capital sigma ends a word: a cased character comes before it and none
\* after it, case-ignorable characters apart
FinalSigma(s, i) ==
    /\ CasedAt(s, SkipIgnorable(s, i - 1, -1))
    /\ ~CasedAt(s, SkipIgnorable(s, i + 1, 1))

RECURSIVE LowerFrom(_, _)
LowerFrom(s, i) ==
    IF i > Len(s) THEN ""
    ELSE (IF CharAt(s, i) = "Σ" /\ FinalSigma(s, i) THEN "ς"
          ELSE LowerChar(CharAt(s, i)))
         \o LowerFrom(s, i + 1)

PyLower(s) == LowerFrom(s, 1)

UpperTable ==
    [c \in CharsOf(LowerChars \o UpperSource) |->
        CharAt(UpperChars \o UpperImage, IndexIn(LowerChars \o UpperSource, c))]

UpperLong == CharsOf(UpperLongSource)

UpperNamed == CharsOf(UpperNamedSource)

\* c.upper() of a string of one character
UpperChar(c) ==
    IF c \in DOMAIN UpperTable THEN UpperTable[c]
    ELSE IF c \in UpperLong THEN UpperLongImage[IndexIn(UpperLongSource, c)]
    ELSE IF c \in UpperNamed THEN UpperNamedImage[IndexIn(UpperNamedSource, c)]
    ELSE c

RECURSIVE PyUpper(_)
PyUpper(s) ==
    IF Len(s) = 0 THEN ""
    ELSE UpperChar(CharAt(s, 1)) \o PyUpper(SubSeq(s, 2, Len(s)))

(***************************************************************************)
(* config.py: the static tables.                                           *)
(***************************************************************************)
\* WEIGHT_CONFIG's keys, in the order the dict literal gives them
Features == <<"budget", "scalability", "security", "ease_of_use", "free_tier">>

ProviderIds == <<"aws", "azure", "gcp">>

PROVIDER_CATALOG ==
    [aws   |-> [scalability |-> 10, security |-> 9, ease_of_use |-> 7,
                budget |-> 6, free_tier |-> 5],
     azure |-> [security |-> 10, scalability |-> 8, ease_of_use |-> 6,
                budget |-> 5, free_tier |-> 4],
     gcp   |-> [free_tier |-> 10, budget |-> 9, ease_of_use |-> 9,
                scalability |-> 7, security |-> 6]]

\* the weights in hundredths: 25 is 0.25
WEIGHT_CONFIG ==
    [budget |-> 25, scalability |-> 20, security |-> 25,
     ease_of_use |-> 15, free_tier |-> 15]

\* the modifiers in tenths: 2 is 0.2
REGION_PROVIDER_MODIFIERS ==
    [india  |-> [aws |-> 2, azure |-> 3, gcp |-> 1],
     us     |-> [aws |-> 3, azure |-> 2, gcp |-> 2],
     europe |-> [aws |-> 2, azure |-> 3, gcp |-> 2]]

MOCK_PRICING ==
    [aws   |-> [base_compute |-> 120, base_storage |-> 40],
     azure |-> [base_compute |-> 110, base_storage |-> 45],
     gcp   |-> [base_compute |-> 100, base_storage |-> 35]]

\* SERVICE_MODEL_RULES: only the keys of the two rule tables are read
SERVICE_MODEL_RULES ==
    [industry       |-> {"healthcare", "finance", "startup", "enterprise", "default"},
     team_expertise |-> {"high", "medium", "low", "default"}]

(***************************************************************************)
(* service_model_rules.py                                                  *)
(***************************************************************************)
INDUSTRY_TO_SERVICE_MODEL ==
    [healthcare |-> "PaaS", finance |-> "IaaS", startup |-> "PaaS",
     enterprise |-> "IaaS", default |-> "IaaS"]

TEAM_EXPERTISE_TO_SERVICE_MODEL ==
    [high |-> "IaaS", medium |-> "PaaS", low |-> "SaaS", default |-> "PaaS"]

DEFAULT_SERVICE_MODEL == "IaaS"

\* an exception leaving the call: its class, and the key it is about
Raise(exc, about) == [kind |-> "raise", exc |-> exc, about |-> about]

ServiceModelResult(model, reason) ==
    [kind |-> "ok", service_model |-> model, reason |-> reason]

\* INDUSTRY_TO_SERVICE_MODEL.get(key, DEFAULT_SERVICE_MODEL), and the same
\* for the team_expertise table
TableGet(table, key) ==
    IF key \in DOMAIN table THEN table[key] ELSE DEFAULT_SERVICE_MODEL

\* the rule lookup without `industry_key in industry_rules`
IndustryMatch_any_string(user_input) ==
    Get(user_input.d, "industry").t = "str"

IndustryMatch(user_input) ==
    LET industry == Get(user_input.d, "industry")
    IN  /\ industry.t = "str"
        /\ PyLower(PyStrip(industry.s)) \in SERVICE_MODEL_RULES.industry

\* the team_expertise lookup on the value as sent, neither trimmed nor
\* lower-cased
TeamExpertiseMatch_exact(user_input) ==
    LET team_expertise == Get(user_input.d, "team_expertise")
    IN  /\ team_expertise.t = "str"
        /\ team_expertise.s \in SERVICE_MODEL_RULES.team_expertise

TeamExpertiseMatch(user_input) ==
    LET team_expertise == Get(user_input.d, "team_expertise")
    IN  /\ team_expertise.t = "str"
        /\ PyLower(PyStrip(team_expertise.s)) \in SERVICE_MODEL_RULES.team_expertise

\* the two lookups in the other order
determine_service_model_expertise_first(user_input) ==
    IF user_input.t # "dict" THEN Raise("TypeError", "user_input")
    ELSE IF TeamExpertiseMatch(user_input)
    THEN LET expertise_key == PyLower(PyStrip(Get(user_input.d, "team_expertise").s))
             service_model == TableGet(TEAM_EXPERTISE_TO_SERVICE_MODEL, expertise_key)
         IN  ServiceModelResult(service_model,
                 "Matched team_expertise rule: " \o expertise_key
                 \o ". Recommended service model: " \o service_model \o ".")
    ELSE IF IndustryMatch(user_input)
    THEN LET industry_key  == PyLower(PyStrip(Get(user_input.d, "industry").s))
             service_model == TableGet(INDUSTRY_TO_SERVICE_MODEL, industry_key)
         IN  ServiceModelResult(service_model,
                 "Matched industry rule: " \o industry_key
                 \o ". Recommended service model: " \o service_model \o ".")
    ELSE ServiceModelResult(DEFAULT_SERVICE_MODEL,
             "No industry or team_expertise rule matched. "
             \o "Using default service model: " \o DEFAULT_SERVICE_MODEL \o ".")

determine_service_model(user_input) ==
    IF user_input.t # "dict" THEN Raise("TypeError", "user_input")
    ELSE IF IndustryMatch(user_input)
    THEN LET industry_key  == PyLower(PyStrip(Get(user_input.d, "industry").s))
             service_model == TableGet(INDUSTRY_TO_SERVICE_MODEL, industry_key)
         IN  ServiceModelResult(service_model,
                 "Matched industry rule: " \o industry_key
                 \o ". Recommended service model: " \o service_model \o ".")
    ELSE IF TeamExpertiseMatch(user_input)
    THEN LET expertise_key == PyLower(PyStrip(Get(user_input.d, "team_expertise").s))
             service_model == TableGet(TEAM_EXPERTISE_TO_SERVICE_MODEL, expertise_key)
         IN  ServiceModelResult(service_model,
                 "Matched team_expertise rule: " \o expertise_key
                 \o ". Recommended service model: " \o service_model \o ".")
    ELSE ServiceModelResult(DEFAULT_SERVICE_MODEL,
             "No industry or team_expertise rule matched. "
             \o "Using default service model: " \o DEFAULT_SERVICE_MODEL \o ".")

(***************************************************************************)
(* scoring_engine.py                                                       *)
(***************************************************************************)
QUALITATIVE_SCALE == [low |-> 3, medium |-> 6, high |-> 9]

EXPECTED_FEATURES == DOMAIN WEIGHT_CONFIG

\* a rational n/d; the intensities are ninths, the weights hundredths or
\* fractions of the override's total
Rat(n, d) == [n |-> n, d |-> d]

Ok(val) == [kind |-> "ok", val |-> val]

Hashable(v) == v.t \notin {"list", "dict"}

\* one turn of the validation loop: "ok", or the exception the turn raises
\* (`raw not in allowed` hashes raw; the ValueError otherwise)
FeatureCheck(user_input, feature) ==
    LET raw == GetOr(user_input.d, feature, PyStr("medium"))
    IN  IF ~Hashable(raw) THEN "TypeError"
        ELSE IF raw.t = "str" /\ raw.s \in DOMAIN QUALITATIVE_SCALE THEN "ok"
        ELSE "ValueError"

\* the first position of `order` from i on whose turn does not pass; 0 if none
RECURSIVE FirstFailing(_, _, _)
FirstFailing(user_input, order, i) ==
    IF i > Len(order) THEN 0
    ELSE IF FeatureCheck(user_input, order[i]) # "ok" THEN i
    ELSE FirstFailing(user_input, order, i + 1)

\* the intensities left on the 3/6/9 scale, without the division by 9.0
_validate_without_scaling(user_input, order) ==
    IF user_input.t # "dict" THEN Raise("TypeError", "user_input")
    ELSE LET bad == FirstFailing(user_input, order, 1)
         IN  IF bad # 0
             THEN Raise(FeatureCheck(user_input, order[bad]), order[bad])
             ELSE Ok([feature \in EXPECTED_FEATURES |->
                        Rat(QUALITATIVE_SCALE[GetOr(user_input.d, feature,
                                                     PyStr("medium")).s], 1)])

\* `order` is the order in which this process iterates EXPECTED_FEATURES
_validate_and_normalize_user_input(user_input, order) ==
    IF user_input.t # "dict" THEN Raise("TypeError", "user_input")
    ELSE LET bad == FirstFailing(user_input, order, 1)
         IN  IF bad # 0
             THEN Raise(FeatureCheck(user_input, order[bad]), order[bad])
             ELSE Ok([feature \in EXPECTED_FEATURES |->
                        Rat(QUALITATIVE_SCALE[GetOr(user_input.d, feature,
                                                     PyStr("medium")).s], 9)])

\* a weight: a rational, or NaN
Weight(n, d) == [nan |-> FALSE, n |-> n, d |-> d]

WeightNaN == [nan |-> TRUE, n |-> 0, d |-> 1]

DefaultWeights == [feature \in EXPECTED_FEATURES |-> Weight(WEIGHT_CONFIG[feature], 100)]

\* the dict _select_weights returns: val under each key, the keys in the
\* order `items` (the order they were inserted in, which items() follows)
Weights(val, items) == [kind |-> "ok", val |-> val, items |-> items]

\* dict(WEIGHT_CONFIG)
WeightConfigCopy == Weights(DefaultWeights, Features)

\* one turn of the extraction loop: "fallback" when the turn returns the
\* default weights, "OverflowError" when float(value) raises, else "ok"
WeightCheck(custom_weights, feature) ==
    LET value == Get(custom_weights.d, feature)
    IN  IF value.t \notin {"int", "float"} THEN "fallback"
        ELSE IF value.s = "huge" THEN "OverflowError"
        ELSE IF value.t = "int" /\ value.n < 0 THEN "fallback"
        ELSE "ok"

RECURSIVE FirstStopping(_, _, _)
FirstStopping(custom_weights, order, i) ==
    IF i > Len(order) THEN 0
    ELSE IF WeightCheck(custom_weights, order[i]) # "ok" THEN i
    ELSE FirstStopping(custom_weights, order, i + 1)

RECURSIVE SumOver(_, _, _)
SumOver(f, order, i) ==
    IF i > Len(order) THEN 0 ELSE f[order[i]] + SumOver(f, order, i + 1)

\* `total <= 0` is false for the coerced values raw: their total is NaN,
\* inf or above 0
TotalAboveZero(raw, order) ==
    \/ \E feature \in EXPECTED_FEATURES : raw[feature].s \in {"nan", "inf"}
    \/ SumOver([feature \in EXPECTED_FEATURES |-> raw[feature].n], order, 1) > 0

\* the normalisation: value / total in doubles, total being NaN as soon as
\* one value is NaN and else inf as soon as one is inf; raw and normalized
\* hold their keys in the order of the loop that filled raw
Normalized(raw, order) ==
    LET anyNaN == \E feature \in EXPECTED_FEATURES : raw[feature].s = "nan"
        anyInf == \E feature \in EXPECTED_FEATURES : raw[feature].s = "inf"
        total  == SumOver([feature \in EXPECTED_FEATURES |-> raw[feature].n], order, 1)
    IN  IF anyNaN THEN Weights([feature \in EXPECTED_FEATURES |-> WeightNaN], order)
        ELSE IF anyInf
        THEN Weights([feature \in EXPECTED_FEATURES |->
                        IF raw[feature].s = "inf" THEN WeightNaN ELSE Weight(0, 1)],
                     order)
        ELSE IF ~TotalAboveZero(raw, order) THEN WeightConfigCopy
        ELSE Weights([feature \in EXPECTED_FEATURES |-> Weight(raw[feature].n, total)],
                     order)

\* custom_weights.get exists on a mapping only: any other value but None
\* raises AttributeError at the first turn of the loop
_select_weights(custom_weights, order) ==
    IF custom_weights.t = "none" THEN WeightConfigCopy
    ELSE IF custom_weights.t # "dict" THEN Raise("AttributeError", "custom_weights")
    ELSE LET stop == FirstStopping(custom_weights, order, 1)
         IN  IF stop = 0
             THEN Normalized([feature \in EXPECTED_FEATURES |->
                                Get(custom_weights.d, feature)], order)
             ELSE IF WeightCheck(custom_weights, order[stop]) = "fallback"
             THEN WeightConfigCopy
             ELSE Raise("OverflowError", order[stop])

\* raw.get(key, "low"): an absent level read as the lowest one
OrMedium_absent_low(raw, key) ==
    IF key \in DOMAIN raw THEN raw[key] ELSE PyStr("low")

\* (raw.get(key) or "medium"), before .lower()
OrMedium(raw, key) ==
    LET v == Get(raw, key) IN IF Truthy(v) THEN v ELSE PyStr("medium")

\* the float literals of the engine, each the double nearest its decimal
Lit_1_0 == FFromInt(1)

Lit_0_30 == FRatio(30, 100)

Lit_0_15 == FRatio(15, 100)

Lit_0_20 == FRatio(20, 100)

Lit_0_10 == FRatio(10, 100)

Lit_0_2 == FRatio(2, 10)

Lit_1_5 == FRatio(15, 10)

Lit_0_8 == FRatio(8, 10)

Lit_100_0 == FFromInt(100)

ScalabilityStep(mult, scal) ==
    IF scal = "high" THEN FAdd(mult, Lit_0_30)
    ELSE IF scal = "medium" THEN FAdd(mult, Lit_0_15)
    ELSE mult

SecurityStep(mult, sec) ==
    IF sec = "high" THEN FAdd(mult, Lit_0_20)
    ELSE IF sec = "medium" THEN FAdd(mult, Lit_0_10)
    ELSE mult

ExpertiseStep(mult, expertise) ==
    IF expertise = "low" THEN FAdd(mult, Lit_0_10) ELSE mult

\* the estimate as an integer number of dollars (the code returns the
\* integral double)
calculate_estimated_cost(user_input, provider) ==
    IF provider \notin DOMAIN MOCK_PRICING THEN Ok(0)
    ELSE LET bases      == MOCK_PRICING[provider]
             base_total == bases.base_compute + bases.base_storage
             raw        == IF user_input.t = "dict" THEN user_input.d ELSE EmptyDict
             scal       == OrMedium(raw, "scalability")
             sec        == OrMedium(raw, "security")
             expertise  == OrMedium(raw, "team_expertise")
         IN  IF scal.t # "str" THEN Raise("AttributeError", "scalability")
             ELSE IF sec.t # "str" THEN Raise("AttributeError", "security")
             ELSE IF expertise.t # "str" THEN Raise("AttributeError", "team_expertise")
             ELSE LET mult == ExpertiseStep(
                                  SecurityStep(
                                      ScalabilityStep(Lit_1_0, PyLower(scal.s)),
                                      PyLower(sec.s)),
                                  PyLower(expertise.s))
                  IN  Ok(PyRound(FMul(FFromInt(base_total), mult), 1))

\* a score: a number of ten-thousandths (the code holds the double nearest
\* v / 10^4, which is what round(_, 4) returns), or NaN
Score(v) == [nan |-> FALSE, v |-> v]

ScoreNaN == [nan |-> TRUE, v |-> 0]

\* the double of a 4-decimal score
D4(v) == FRatio(v, 10000)

\* the score cut to 4 decimals instead of rounded
RoundRat_floor(num, den) == num \div den

\* num / den rounded to the nearest integer, ties to even
RoundRat(num, den) ==
    LET q == num \div den
        r == num % den
    IN  IF 2 * r > den \/ (2 * r = den /\ q % 2 = 1) THEN q + 1 ELSE q

\* the numerator of the exact sum of weight * user_intensity *
\* provider_score over the features, whose denominator is that of the
\* intensities times that of the weights
RECURSIVE WeightedSum(_, _, _, _)
WeightedSum(weights, intensity, feature_scores, i) ==
    IF i > Len(Features) THEN 0
    ELSE weights[Features[i]].n * intensity[Features[i]].n * feature_scores[Features[i]]
         + WeightedSum(weights, intensity, feature_scores, i + 1)

\* num / den lies halfway between two neighbouring values of 4 decimals
HalfWay(num, den) ==
    (20000 * num) % den = 0 /\ ((20000 * num) \div den) % 2 = 1

\* weight * user_intensity * provider_score, in doubles
Term(weight, user_intensity, provider_score) ==
    FMul(FMul(FRatio(weight.n, weight.d), FRatio(user_intensity.n, user_intensity.d)),
         FFromInt(provider_score))

\* the inner loop from the i-th item of weights on: score += weight *
\* user_intensity * provider_score, in doubles, in the order of
\* weights.items()
RECURSIVE ScoreFrom(_, _, _, _, _, _)
ScoreFrom(score, weights, items, intensity, feature_scores, i) ==
    IF i > Len(items) THEN score
    ELSE ScoreFrom(FAdd(score, Term(weights[items[i]], intensity[items[i]],
                                    feature_scores[items[i]])),
                   weights, items, intensity, feature_scores, i + 1)

\* round(score, 4) after the inner loop, for the exact sum num / den.  The
\* loop rounds each weight, each intensity, each of the ten products and
\* each of the four sums that follow the first to a double, which moves
\* the score, of 10 at most, by less than 1e-14 from num / den; and a
\* num / den that is not halfway between two values of 4 decimals is at
\* least 1e-4 / (2 * den) away from being so.  So the double rounds as
\* num / den does unless that is halfway, and then the double itself, which
\* depends on the order of the items, decides.
RoundedSum(num, den, weights, items, intensity, feature_scores) ==
    IF HalfWay(num, den)
    THEN PyRound(ScoreFrom(FZero, weights, items, intensity, feature_scores, 1), 10000)
    ELSE RoundRat(10000 * num, den)

\* round(score, 4) after the inner loop over weights.items().  A NaN weight
\* makes the sum NaN.
WeightedScore(weights, items, intensity, provider_id) ==
    IF \E feature \in EXPECTED_FEATURES : weights[feature].nan THEN ScoreNaN
    ELSE Score(RoundedSum(
             WeightedSum(weights, intensity, PROVIDER_CATALOG[provider_id], 1),
             intensity[Features[1]].d * weights[Features[1]].d,
             weights, items, intensity, PROVIDER_CATALOG[provider_id]))

RegionApplies(region) ==
    /\ Truthy(region)
    /\ region.t = "str"
    /\ region.s \in DOMAIN REGION_PROVIDER_MODIFIERS

\* the modifier looked up under the wrong key: the first provider's modifier
\* is added to every provider
WithModifier_first_provider(score, region, provider_id) ==
    IF score.nan THEN ScoreNaN
    ELSE Score(PyRound(
             FAdd(D4(score.v), FRatio(REGION_PROVIDER_MODIFIERS[region.s][ProviderIds[1]], 10)),
             10000))

\* round(result[provider_id] + modifiers[provider_id], 4)
WithModifier(score, region, provider_id) ==
    IF score.nan THEN ScoreNaN
    ELSE Score(PyRound(
             FAdd(D4(score.v), FRatio(REGION_PROVIDER_MODIFIERS[region.s][provider_id], 10)),
             10000))

\* the budget branch without its subtraction: no penalty is taken off
WithPenalty_none(score, cost, max_cost) == score

\* round(result[provider_id] - 0.2 * (cost / max_cost), 4)
WithPenalty(score, cost, max_cost) ==
    IF score.nan THEN ScoreNaN
    ELSE Score(PyRound(
             FSub(D4(score.v), FMul(Lit_0_2, FRatio(cost, max_cost))),
             10000))

Max(S) == CHOOSE x \in S : \A y \in S : y <= x

Providers == DOMAIN PROVIDER_CATALOG

\* result after the weighted sum and the regional modifier, before the
\* cost penalty, for validated intensities and selected weights
ScoresBeforePenalty(intensity, weights, items, region) ==
    [provider_id \in Providers |->
        LET base == WeightedScore(weights, items, intensity, provider_id)
        IN  IF RegionApplies(region) THEN WithModifier(base, region, provider_id)
            ELSE base]

BudgetIsHigh(user_input) ==
    user_input.t = "dict" /\ Get(user_input.d, "budget") = PyStr("high")

\* the values of {pid: calculate_estimated_cost(raw_input, pid) for pid in
\* result}, in result's order, from the i-th provider on
RECURSIVE CostsFrom(_, _)
CostsFrom(user_input, i) ==
    IF i > Len(ProviderIds) THEN <<>>
    ELSE <<calculate_estimated_cost(user_input, ProviderIds[i])>>
         \o CostsFrom(user_input, i + 1)

ProviderIndex(provider_id) ==
    CHOOSE i \in 1..Len(ProviderIds) : ProviderIds[i] = provider_id

\* the budget branch: with budget "high" every score loses its cost penalty
\* (costs are the estimates in ProviderIds order), unless an estimate raised
AfterPenalty(user_input, result, costs) ==
    IF ~BudgetIsHigh(user_input) THEN Ok(result)
    ELSE IF costs[1].kind = "raise" THEN costs[1]
    ELSE Ok([provider_id \in Providers |->
               WithPenalty(result[provider_id],
                           costs[ProviderIndex(provider_id)].val,
                           Max({costs[i].val : i \in 1..Len(costs)}))])

\* the body after validation and weight selection
ScoresGiven(user_input, intensity, weights, region) ==
    IF intensity.kind = "raise" THEN intensity
    ELSE IF weights.kind = "raise" THEN weights
    ELSE AfterPenalty(user_input,
                      ScoresBeforePenalty(intensity.val, weights.val, weights.items,
                                          region),
                      CostsFrom(user_input, 1))

calculate_provider_scores(user_input, custom_weights, region, order) ==
    ScoresGiven(user_input,
                _validate_and_normalize_user_input(user_input, order),
                _select_weights(custom_weights, order),
                region)

RECURSIVE InsertDesc(_, _)
InsertDesc(x, seq) ==
    IF seq = <<>> THEN <<x>>
    ELSE IF x > Head(seq) THEN <<x>> \o seq
    ELSE <<Head(seq)>> \o InsertDesc(x, Tail(seq))

RECURSIVE SortedDesc(_, _)
\* sorted(provider_scores.values(), reverse=True)
SortedDesc(provider_scores, keys) ==
    IF keys = {} THEN <<>>
    ELSE LET k == CHOOSE k \in keys : TRUE
         IN  InsertDesc(provider_scores[k], SortedDesc(provider_scores, keys \ {k}))

\* the level read with 0.5 as the Moderate threshold
ConfidenceLevel_half(difference) ==
    IF FCmp(difference, Lit_1_5) >= 0 THEN "High"
    ELSE IF FCmp(difference, FRatio(5, 10)) >= 0 THEN "Moderate"
    ELSE "Low"

ConfidenceLevel(difference) ==
    IF FCmp(difference, Lit_1_5) >= 0 THEN "High"
    ELSE IF FCmp(difference, Lit_0_8) >= 0 THEN "Moderate"
    ELSE "Low"

\* round(max(0.0, min((difference / 3.0) * 100.0, 100.0)), 1), in tenths
ConfidencePercent(difference) ==
    LET x      == FMul(FDivInt(difference, 3), Lit_100_0)
        capped == IF FCmp(Lit_100_0, x) < 0 THEN Lit_100_0 ELSE x
    IN  PyRound(capped, 10)

\* provider_scores maps provider ids to 4-decimal scores (ten-thousandths);
\* confidence_percent is returned in tenths of a percent
compute_confidence(provider_scores) ==
    IF Cardinality(DOMAIN provider_scores) < 2
    THEN [confidence_percent |-> 0, confidence_level |-> "Low"]
    ELSE LET ordered    == SortedDesc(provider_scores, DOMAIN provider_scores)
             difference == FSub(D4(ordered[1]), D4(ordered[2]))
         IN  [confidence_percent |-> ConfidencePercent(difference),
              confidence_level   |-> ConfidenceLevel(difference)]

(***************************************************************************)
(* explanation_engine.py.  Lines are Python strings; a score prints as     *)
(* str(float) prints a double of at most 4 decimals.                       *)
(***************************************************************************)
_INFLUENCE_SCALE == [low |-> 3, medium |-> 6, high |-> 9]

PROVIDER_STRENGTHS ==
    [aws   |-> <<"Broadest service catalog and global footprint",
                 "Strong enterprise and compliance offerings",
                 "Leading scalability and security">>,
     azure |-> <<"Deep integration with Microsoft stack and hybrid cloud",
                 "Strong compliance and government offerings",
                 "Top-tier security and enterprise focus">>,
     gcp   |-> <<"Strong data and ML/AI capabilities",
                 "Generous free tier and sustained-use discounts",
                 "Cost-effective and developer-friendly">>]

\* weight * intensity in hundredths.  The doubles 0.25 * 6 and the like
\* order as these integers do: equal products come from equal factors.
InfluenceOf(user_input, feature) ==
    WEIGHT_CONFIG[feature]
    * (IF GetOr(user_input.d, feature, PyStr("medium")).t = "str"
          /\ GetOr(user_input.d, feature, PyStr("medium")).s \in DOMAIN _INFLUENCE_SCALE
       THEN _INFLUENCE_SCALE[GetOr(user_input.d, feature, PyStr("medium")).s]
       ELSE 6)

\* list.sort(key=lambda x: -x[1]) is stable: x goes behind every pair that
\* was listed before it and has no smaller influence
RECURSIVE InsertByInfluence(_, _)
InsertByInfluence(x, sorted) ==
    IF sorted = <<>> THEN <<x>>
    ELSE IF Head(sorted)[2] >= x[2]
    THEN <<Head(sorted)>> \o InsertByInfluence(x, Tail(sorted))
    ELSE <<x>> \o sorted

\* the first n features of `order` as (feature, influence), sorted
RECURSIVE SortedByInfluence(_, _, _)
SortedByInfluence(user_input, order, n) ==
    IF n = 0 THEN <<>>
    ELSE InsertByInfluence(<<order[n], InfluenceOf(user_input, order[n])>>,
                           SortedByInfluence(user_input, order, n - 1))

\* `order` is the order in which this process iterates _FEATURE_NAMES
_rank_criteria_by_influence(user_input, top_n, order) ==
    IF user_input.t # "dict" THEN <<>>
    ELSE SubSeq(SortedByInfluence(user_input, order, Len(order)), 1, top_n)

\* s.replace("_", " ")
RECURSIVE ReplaceUnderscores(_)
ReplaceUnderscores(s) ==
    IF s = "" THEN ""
    ELSE (IF CharAt(s, 1) = "_" THEN " " ELSE CharAt(s, 1))
         \o ReplaceUnderscores(SubSeq(s, 2, Len(s)))

\* sep.join(lines)
RECURSIVE Join(_, _)
Join(lines, sep) ==
    IF lines = <<>> THEN ""
    ELSE IF Len(lines) = 1 THEN lines[1]
    ELSE lines[1] \o sep \o Join(Tail(lines), sep)

\* the decimal digits of n in `width` places, zero-padded
RECURSIVE PaddedText(_, _)
PaddedText(n, width) ==
    IF width = 0 THEN ""
    ELSE PaddedText(n \div 10, width - 1) \o CharAt("0123456789", (n % 10) + 1)

RECURSIVE IntText(_)
IntText(n) == IF n < 10 THEN PaddedText(n, 1) ELSE IntText(n \div 10) \o PaddedText(n % 10, 1)

\* the fraction digits of str(float): trailing zeros dropped, one digit kept
RECURSIVE FracText(_, _)
FracText(f, width) ==
    IF width = 1 \/ f % 10 # 0 THEN PaddedText(f, width)
    ELSE FracText(f \div 10, width - 1)

\* f"{score_val}" for a score
ScoreText(score) ==
    IF score.nan THEN "nan"
    ELSE IntText(score.v \div 10000) \o "." \o FracText(score.v % 10000, 4)

\* the names of the ranked criteria with influence above 0, underscores as
\* blanks
RECURSIVE CriteriaNames(_)
CriteriaNames(top_criteria) ==
    IF top_criteria = <<>> THEN <<>>
    ELSE (IF Head(top_criteria)[2] > 0
          THEN <<ReplaceUnderscores(Head(top_criteria)[1])>> ELSE <<>>)
         \o CriteriaNames(Tail(top_criteria))

\* the selection sentence: with the score when provider_scores is a dict
\* holding one for the provider, and with the criteria when any is named
SelectionLine(selected_provider, provider_scores, criteria_names) ==
    IF criteria_names = <<>>
    THEN PyUpper(selected_provider.s) \o " was selected as the recommended provider."
    ELSE IF provider_scores.t = "dict" /\ selected_provider.s \in DOMAIN provider_scores.d
    THEN PyUpper(selected_provider.s) \o " was selected (score: "
         \o ScoreText(provider_scores.d[selected_provider.s])
         \o ") based on your priorities: " \o Join(criteria_names, ", ") \o "."
    ELSE PyUpper(selected_provider.s) \o " was selected based on your priorities: "
         \o Join(criteria_names, ", ") \o "."

\* selected_provider is what generate_explanation passes: a falsy one is "".
\* The criteria are ranked for `user_input or {}`: a falsy user_input, dict or
\* not, is ranked as the empty dict
_provider_explanation(selected_provider, provider_scores, user_input, order) ==
    IF ~(/\ Truthy(selected_provider)
         /\ selected_provider.t = "str"
         /\ selected_provider.s \in Providers)
    THEN <<"Provider selection could not be explained (unknown or missing provider).">>
    ELSE <<SelectionLine(selected_provider, provider_scores,
                         CriteriaNames(_rank_criteria_by_influence(
                             IF Truthy(user_input) THEN user_input
                             ELSE PyDict(EmptyDict),
                             3, order))),
           "Key strengths: "
           \o Join(SubSeq(PROVIDER_STRENGTHS[selected_provider.s], 1, 3), "; ")
           \o ".">>

\* ReasonLine, but an empty reason is returned like any other
ReasonLine_empty_reason_kept(service_model_result) ==
    IF "reason" \in DOMAIN service_model_result
    THEN service_model_result.reason
    ELSE "Service model: default recommendation applied."

\* the last line: the rule's reason, or the default line when
\* service_model_result is no dict or holds no (non-empty) reason
ReasonLine(service_model_result) ==
    IF "reason" \in DOMAIN service_model_result /\ service_model_result.reason # ""
    THEN service_model_result.reason
    ELSE "Service model: default recommendation applied."

generate_explanation(user_input, provider_scores, selected_provider, service_model_result, order) ==
    (IF provider_scores.t # "dict"
     THEN <<"Provider recommendation explanation is unavailable.">>
     ELSE _provider_explanation(
              IF Truthy(selected_provider) THEN selected_provider ELSE PyStr(""),
              provider_scores,
              IF user_input.t = "dict" THEN user_input ELSE PyDict(EmptyDict),
              order))
    \o <<ReasonLine(service_model_result)>>

(***************************************************************************)
(* config.py l.130-137 and enhance_explanation_with_ai.  environ holds the *)
(* two environment variables (None when unset); the reply of the external  *)
(* service is any exception urlopen, read, decode or json.loads may raise, *)
(* or any JSON value.                                                      *)
(***************************************************************************)
\* os.environ.get(name) or default
EnvOr(value, default) == IF Truthy(value) THEN value.s ELSE default

_env_bool(value) ==
    IF value = "" THEN FALSE
    ELSE PyLower(PyStrip(value)) \in {"true", "1", "yes"}

GEMINI_API_KEY(environ) ==
    IF PyStrip(EnvOr(environ.GEMINI_API_KEY, "")) = "" THEN PyNone
    ELSE PyStr(PyStrip(EnvOr(environ.GEMINI_API_KEY, "")))

ENABLE_AI_EXPLANATION(environ) ==
    _env_bool(PyStrip(EnvOr(environ.ENABLE_AI_EXPLANATION, "false")))

\* JSON values: an object is its keys and, in the same order, their values
JNull == [j |-> "null", s |-> "", keys |-> <<>>, items |-> <<>>]

JStr(x) == [j |-> "str", s |-> x, keys |-> <<>>, items |-> <<>>]

\* a number other than 0
JNum == [j |-> "num", s |-> "5", keys |-> <<>>, items |-> <<>>]

JList(items) == [j |-> "list", s |-> "", keys |-> <<>>, items |-> items]

JObj(keys, items) == [j |-> "obj", s |-> "", keys |-> keys, items |-> items]

\* d.get(key) of a JSON object
JGet(d, key) ==
    IF \E i \in 1..Len(d.keys) : d.keys[i] = key
    THEN d.items[CHOOSE i \in 1..Len(d.keys) : d.keys[i] = key]
    ELSE JNull

\* bool(v): `x or []` and `x or {}` go on with the empty container, which
\* is falsy as well
JTruthy(v) ==
    CASE v.j = "null" -> FALSE
      [] v.j = "str"  -> v.s # ""
      [] v.j = "list" -> v.items # <<>>
      [] v.j = "obj"  -> v.keys # <<>>
      [] OTHER        -> TRUE

\* an exception: its class and every class it is an instance of, its own
\* among them
Exc(cls, ancestors) == [cls |-> cls, bases |-> {cls} \cup ancestors]

\* no exception
NoExc == [cls |-> "", bases |-> {}]

\* the exception classes each of these classes derives from
ExceptionAncestors ==
    [URLError             |-> {"OSError", "Exception", "BaseException"},
     HTTPError            |-> {"URLError", "OSError", "Exception", "BaseException"},
     TimeoutError         |-> {"OSError", "Exception", "BaseException"},
     ConnectionResetError |-> {"ConnectionError", "OSError", "Exception",
                               "BaseException"},
     OSError              |-> {"Exception", "BaseException"},
     IncompleteRead       |-> {"HTTPException", "Exception", "BaseException"},
     UnicodeDecodeError   |-> {"UnicodeError", "ValueError", "Exception",
                               "BaseException"},
     JSONDecodeError      |-> {"ValueError", "Exception", "BaseException"},
     ValueError           |-> {"Exception", "BaseException"},
     KeyError             |-> {"LookupError", "Exception", "BaseException"},
     TypeError            |-> {"Exception", "BaseException"},
     AttributeError       |-> {"Exception", "BaseException"},
     MemoryError          |-> {"Exception", "BaseException"},
     KeyboardInterrupt    |-> {"BaseException"},
     SystemExit           |-> {"BaseException"}]

\* an exception of one of these classes
ExceptionOf(cls) == Exc(cls, ExceptionAncestors[cls])

\* isinstance(exc, classes), which an except clause tests
IsInstance(exc, classes) == exc.bases \cap classes # {}

\* what the try block comes to: a return, an exception, or its end
TryReturn(text) == [k |-> "return", s |-> text, exc |-> NoExc]

TryRaise(exc) == [k |-> "raise", s |-> "", exc |-> exc]

TryPass == [k |-> "pass", s |-> "", exc |-> NoExc]

\* text truthy and a str: return text.strip()
FromText(text) ==
    IF JTruthy(text) /\ text.j = "str" THEN TryReturn(PyStrip(text.s)) ELSE TryPass

\* v[0] of a truthy v followed by isinstance(v[0], dict): a list gives its
\* first item, a str its first character, a dict has no key 0 (KeyError), a
\* number has no subscript (TypeError); `then` is the key read from the dict
FirstDict(v, then) ==
    CASE v.j = "list" -> IF v.items[1].j = "obj"
                         THEN [k |-> "dict", exc |-> NoExc, v |-> JGet(v.items[1], then)]
                         ELSE [k |-> "pass", exc |-> NoExc, v |-> JNull]
      [] v.j = "str"  -> [k |-> "pass", exc |-> NoExc, v |-> JNull]
      [] v.j = "obj"  -> [k |-> "raise", exc |-> ExceptionOf("KeyError"), v |-> JNull]
      [] OTHER        -> [k |-> "raise", exc |-> ExceptionOf("TypeError"), v |-> JNull]

\* the try block ends, or raises, at v[0]
StopsAt(first) == IF first.k = "raise" THEN TryRaise(first.exc) ELSE TryPass

\* parts[0].get("text") when parts is truthy and parts[0] a dict
FromParts(parts) ==
    IF ~JTruthy(parts) THEN TryPass
    ELSE IF FirstDict(parts, "text").k = "dict"
    THEN FromText(FirstDict(parts, "text").v)
    ELSE StopsAt(FirstDict(parts, "text"))

\* content = candidates[0].get("content") or {}; content.get("parts") or []
FromContent(content) ==
    IF ~JTruthy(content) THEN TryPass
    ELSE IF content.j # "obj" THEN TryRaise(ExceptionOf("AttributeError"))
    ELSE FromParts(JGet(content, "parts"))

\* candidates = data.get("candidates") or []
FromCandidates(candidates) ==
    IF ~JTruthy(candidates) THEN TryPass
    ELSE IF FirstDict(candidates, "content").k = "dict"
    THEN FromContent(FirstDict(candidates, "content").v)
    ELSE StopsAt(FirstDict(candidates, "content"))

\* what urlopen, read, decode and json.loads come to: the exception one of
\* them raises, or the JSON value parsed
Raised(exc) == [kind |-> "raise", exc |-> exc, data |-> JNull]

Replied(data) == [kind |-> "response", exc |-> NoExc, data |-> data]

\* urlopen has not been called
NoReply == [kind |-> "none", exc |-> NoExc, data |-> JNull]

\* the statements of the try block from urlopen on
AfterRequest(reply) ==
    IF reply.kind = "raise" THEN TryRaise(reply.exc)
    ELSE IF reply.data.j # "obj" THEN TryRaise(ExceptionOf("AttributeError"))
    ELSE FromCandidates(JGet(reply.data, "candidates"))

_format_deterministic_explanation(original_explanation) ==
    IF original_explanation = <<>> THEN "No explanation available."
    ELSE Join(original_explanation, "\n\n")

\* the classes the first except clause names
GeminiErrors == {"URLError", "HTTPError", "JSONDecodeError", "KeyError", "TypeError"}

\* the two except clauses: the classes named, then Exception
Handled(exc) == IsInstance(exc, GeminiErrors) \/ IsInstance(exc, {"Exception"})

\* what the call returns (val) or raises (exc)
Enhanced(kind, val, exc) == [kind |-> kind, val |-> val, exc |-> exc]

\* the try statement and the final return, given what the block came to:
\* an exception no clause handles leaves the call
AfterTry(formatted, outcome) ==
    IF outcome.k = "return" THEN Enhanced("ok", outcome.s, NoExc)
    ELSE IF outcome.k = "raise" /\ ~Handled(outcome.exc)
    THEN Enhanced("raise", "", outcome.exc)
    ELSE Enhanced("ok", IF formatted # "" THEN formatted
                        ELSE "No explanation available.", NoExc)

\* the call gets to urlopen: the flag is on and the key is a str that is
\* not empty once stripped
ReachesUrlopen(enabled, key) ==
    /\ enabled
    /\ Truthy(key)
    /\ key.t = "str"
    /\ PyStrip(key.s) # ""

\* `reply` is what urlopen comes to if the call gets there
EnhanceFormatted(formatted, enabled, key, reply) ==
    IF ~ReachesUrlopen(enabled, key) THEN Enhanced("ok", formatted, NoExc)
    ELSE AfterTry(formatted, AfterRequest(reply))

enhance_explanation_with_ai(original_explanation, environ, reply) ==
    EnhanceFormatted(_format_deterministic_explanation(original_explanation),
                     ENABLE_AI_EXPLANATION(environ), GEMINI_API_KEY(environ),
                     reply)

(***************************************************************************)
(* routes.py.  A request is its method, whether its content type is JSON,  *)
(* and what get_json returns: `data` holds the body's members other than   *)
(* "weights" and "region" (the engine reads neither), which are kept       *)
(* beside it.  A response is its status, its JSON body and the engine      *)
(* functions the handler called on the way, in order.                      *)
(***************************************************************************)
REQUIRED_FIELDS ==
    <<"budget", "scalability", "security", "ease_of_use", "free_tier",
      "team_expertise", "industry">>

QUALITATIVE_VALUES == {"low", "medium", "high"}

INDUSTRY_VALUES == {"general", "fintech", "healthcare", "ai"}

REGION_VALUES == {"india", "us", "europe"}

QUALITATIVE_FIELDS ==
    {"budget", "scalability", "security", "ease_of_use", "free_tier", "team_expertise"}

WEIGHT_FIELDS == <<"budget", "scalability", "security", "ease_of_use", "free_tier">>

\* sorted(REQUIRED_FIELDS)
SortedRequiredFields ==
    <<"budget", "ease_of_use", "free_tier", "industry", "scalability",
      "security", "team_expertise">>

\* the error message, "" for None
_validate_payload(data) ==
    IF data.t # "dict" THEN "Request body must be a JSON object."
    ELSE IF \A field \in QUALITATIVE_FIELDS \cup {"industry"} : field \in DOMAIN data.d
    THEN ""
    ELSE "Missing required fields: "
         \o Join(SelectSeq(SortedRequiredFields, LAMBDA f : f \notin DOMAIN data.d), ", ")
         \o "."

\* FieldAllowed, but an industry of any vocabulary passes
FieldAllowed_any_industry(data, field) ==
    /\ Get(data.d, field).t = "str"
    /\ field \in QUALITATIVE_FIELDS
       => PyLower(PyStrip(Get(data.d, field).s)) \in QUALITATIVE_VALUES

\* one turn of the loop of _validate_field_values passes
FieldAllowed(data, field) ==
    /\ Get(data.d, field).t = "str"
    /\ field \in QUALITATIVE_FIELDS
       => PyLower(PyStrip(Get(data.d, field).s)) \in QUALITATIVE_VALUES
    /\ field = "industry"
       => PyLower(PyStrip(Get(data.d, field).s)) \in INDUSTRY_VALUES

\* the error message for the first field from REQUIRED_FIELDS[i] on that
\* does not pass, "" for None
RECURSIVE FieldValuesFrom(_, _)
FieldValuesFrom(data, i) ==
    IF i > Len(REQUIRED_FIELDS) THEN ""
    ELSE IF ~FieldAllowed(data, REQUIRED_FIELDS[i])
    THEN "Invalid value for " \o REQUIRED_FIELDS[i]
    ELSE FieldValuesFrom(data, i + 1)

_validate_field_values(data) == FieldValuesFrom(data, 1)

\* the loop of _extract_custom_weights from WEIGHT_FIELDS[i] on: None at a
\* value that is no number, OverflowError at an int float() cannot hold
RECURSIVE ExtractWeightsFrom(_, _)
ExtractWeightsFrom(weights, i) ==
    IF i > Len(WEIGHT_FIELDS)
    THEN Ok(PyDict([field \in {WEIGHT_FIELDS[k] : k \in 1..Len(WEIGHT_FIELDS)} |->
                       weights.d[field]]))
    ELSE IF Get(weights.d, WEIGHT_FIELDS[i]).t \notin {"int", "float"} THEN Ok(NoneArg)
    ELSE IF Get(weights.d, WEIGHT_FIELDS[i]).s = "huge"
    THEN Raise("OverflowError", WEIGHT_FIELDS[i])
    ELSE ExtractWeightsFrom(weights, i + 1)

\* `weights` is data.get("weights")
_extract_custom_weights(weights) ==
    IF weights.t # "dict" THEN Ok(NoneArg) ELSE ExtractWeightsFrom(weights, 1)

\* `raw` is data.get("region")
_extract_region(raw) ==
    IF raw.t = "str" /\ PyLower(PyStrip(raw.s)) \in REGION_VALUES
    THEN PyStr(PyLower(PyStrip(raw.s)))
    ELSE PyNone

Response(status, body, calls) ==
    [kind |-> "ok", status |-> status, body |-> body, calls |-> calls]

RECURSIVE Zeros(_)
Zeros(n) == IF n = 0 THEN "" ELSE "0" \o Zeros(n - 1)

\* str(raw), as f"{raw}" renders a value
StrOf(raw) ==
    CASE raw.t = "str"   -> raw.s
      [] raw.t = "none"  -> "None"
      [] raw.t = "float" -> raw.s
      [] raw.t = "int"   -> IF raw.s = "huge" THEN "1" \o Zeros(400)
                            ELSE IF raw.n < 0 THEN "-" \o IntText(-raw.n)
                            ELSE IntText(raw.n)

\* str(e) of the ValueError or TypeError calculate_provider_scores raised:
\* the message of the raise statement, or that of hashing a list or a dict
ErrorText(user_input, raised) ==
    IF raised.about = "user_input" THEN "user_input must be a dict"
    ELSE IF raised.exc = "TypeError"
    THEN "unhashable type: '"
         \o GetOr(user_input.d, raised.about, PyStr("medium")).t \o "'"
    ELSE "Invalid value for '" \o raised.about \o "': '"
         \o StrOf(GetOr(user_input.d, raised.about, PyStr("medium")))
         \o "'. Expected one of: ['high', 'low', 'medium']"

\* max(provider_scores, key=provider_scores.get) from ProviderIds[i] on: a
\* later provider replaces `best` when its score compares greater, which no
\* comparison with NaN does
RECURSIVE MaxFrom(_, _, _)
MaxFrom(provider_scores, best, i) ==
    IF i > Len(ProviderIds) THEN best
    ELSE MaxFrom(provider_scores,
                 IF /\ ~provider_scores[ProviderIds[i]].nan
                    /\ ~provider_scores[best].nan
                    /\ provider_scores[ProviderIds[i]].v > provider_scores[best].v
                 THEN ProviderIds[i] ELSE best,
                 i + 1)

\* an exception leaves the handler after it has called `calls`
Propagated(exc, calls) == [kind |-> "raise", exc |-> exc, calls |-> calls]

\* the try statement around the enhancer: `except Exception` answers with
\* the joined lines, any other exception goes on
EnhancedOrJoined(explanation, enhanced) ==
    IF enhanced.kind = "ok" THEN enhanced
    ELSE IF ~IsInstance(enhanced.exc, {"Exception"}) THEN enhanced
    ELSE Enhanced("ok",
                  IF explanation # <<>> THEN Join(explanation, "\n\n")
                  ELSE "No explanation available.",
                  NoExc)

EngineCalls ==
    <<"calculate_provider_scores", "determine_service_model",
      "generate_explanation", "enhance_explanation_with_ai",
      "calculate_estimated_cost", "calculate_estimated_cost",
      "calculate_estimated_cost">>

\* the handler after the try statement around the enhancer
AfterEnhancer(user_input, provider_scores, service_model_result, selected_provider, explanation, explanation_enhanced) ==
    IF explanation_enhanced.kind = "raise"
    THEN Propagated(explanation_enhanced.exc, SubSeq(EngineCalls, 1, 4))
    ELSE Response(200,
                  [recommended_provider      |-> selected_provider,
                   recommended_service_model |-> service_model_result.service_model,
                   final_scores              |-> provider_scores,
                   estimated_costs           |->
                       [pid \in {"aws", "azure", "gcp"} |->
                           calculate_estimated_cost(user_input, pid).val],
                   explanation               |-> explanation,
                   explanation_raw           |-> explanation,
                   explanation_enhanced      |-> explanation_enhanced.val],
                  EngineCalls)

\* the handler from the enhancer on
Explained(user_input, provider_scores, service_model_result, selected_provider, explanation, environ, reply) ==
    AfterEnhancer(user_input, provider_scores, service_model_result,
                  selected_provider, explanation,
                  EnhancedOrJoined(explanation,
                      enhance_explanation_with_ai(explanation, environ, reply)))

\* the handler from the selection on
Selected(user_input, provider_scores, service_model_result, selected_provider, order, environ, reply) ==
    Explained(user_input, provider_scores, service_model_result, selected_provider,
              generate_explanation(user_input, PyDict(provider_scores),
                                   PyStr(selected_provider), service_model_result,
                                   order),
              environ, reply)

\* the handler after calculate_provider_scores; an exception that is neither
\* caught nor a TypeError or ValueError is answered with status 500
AfterScoring(user_input, provider_scores, order, environ, reply) ==
    IF provider_scores.kind = "raise"
    THEN IF provider_scores.exc \in {"TypeError", "ValueError"}
         THEN Response(400, [error |-> ErrorText(user_input, provider_scores)],
                       SubSeq(EngineCalls, 1, 1))
         ELSE Response(500, [exception |-> provider_scores.exc],
                       SubSeq(EngineCalls, 1, 1))
    ELSE IF DOMAIN provider_scores.val = {}
    THEN Response(500, [error |-> "No provider scores computed."],
                  SubSeq(EngineCalls, 1, 2))
    ELSE Selected(user_input, provider_scores.val,
                  determine_service_model(user_input),
                  MaxFrom(provider_scores.val, ProviderIds[1], 2),
                  order, environ, reply)

\* the handler after the two validations
Validated(user_input, custom_weights, region, order, environ, reply) ==
    IF custom_weights.kind = "raise"
    THEN Response(500, [exception |-> custom_weights.exc], <<>>)
    ELSE AfterScoring(user_input,
                      calculate_provider_scores(user_input, custom_weights.val,
                                                region, order),
                      order, environ, reply)

recommend(request, order, environ, reply) ==
    IF request.method = "GET"
    THEN Response(200,
                  [message |-> "Use POST with a JSON body to get a recommendation.",
                   required_fields |-> REQUIRED_FIELDS,
                   example_values |->
                       [budget |-> "low | medium | high",
                        industry |-> "general | fintech | healthcare | ai"]],
                  <<>>)
    ELSE IF ~request.is_json
    THEN Response(400, [error |-> "Content-Type must be application/json."], <<>>)
    ELSE IF _validate_payload(request.data) # ""
    THEN Response(400, [error |-> _validate_payload(request.data)], <<>>)
    ELSE IF _validate_field_values(request.data) # ""
    THEN Response(400, [error |-> _validate_field_values(request.data)], <<>>)
    ELSE Validated(request.data, _extract_custom_weights(request.weights),
                   _extract_region(request.region), order, environ, reply)

(***************************************************************************)
(* The arguments the calls are made with.                                  *)
(***************************************************************************)
\* the calls a session makes after its first one
MaxSessionCalls == 2

MaxPad == 1

MaxWeight == 1

MaxTenths == 32

MaxScoreWeight == 2

RECURSIVE Pad(_)
Pad(n) == IF n = 0 THEN "" ELSE " " \o Pad(n - 1)

TitleCase(w) == UpperChar(CharAt(w, 1)) \o SubSeq(w, 2, Len(w))

\* what a caller may put around a word: spaces, a carriage return, a no-break
\* space, all of which str.strip() removes
Pads == {Pad(n) : n \in 0..MaxPad} \cup {"\r", " "}

\* a word as a caller may spell it: padded with blanks, in three casings
Spellings(w) ==
    {l \o c \o r : l \in Pads, r \in Pads, c \in {w, PyUpper(w), TitleCase(w)}}

IndustryValues ==
    {PyStr(x) : x \in UNION {Spellings(w) :
                    w \in {"healthcare", "startup", "default", "fintech", "general"}}}
    \cup {PyNone, PyInt(7), PyList}

ExpertiseValues ==
    {PyStr(x) : x \in UNION {Spellings(w) : w \in {"low", "medium", "high", "none"}}}
    \cup {PyNone, PyInt(7), PyList}

\* dicts with the keys of `keys` among ks, key k holding a value of vals[k]
RECURSIVE DictsOver(_, _)
DictsOver(ks, vals) ==
    IF ks = {} THEN {EmptyDict}
    ELSE LET k    == CHOOSE k \in ks : TRUE
             rest == DictsOver(ks \ {k}, vals)
         IN  rest \cup {(k :> v) @@ d : v \in vals[k], d \in rest}

RuleInputs ==
    {PyDict(d) : d \in DictsOver({"industry", "team_expertise"},
                                 [industry |-> IndustryValues,
                                  team_expertise |-> ExpertiseValues])}
    \cup {NotADict, NoneArg}

Levels == {PyStr("low"), PyStr("medium"), PyStr("high")}

NormInputs ==
    {PyDict(d) : d \in DictsOver(EXPECTED_FEATURES,
                    [feature \in EXPECTED_FEATURES |->
                        Levels \cup {PyStr("High"), PyNone, PyList}])}
    \cup {NotADict, NoneArg}

\* the values an override may hold under a key
WeightValues ==
    {PyInt(k) : k \in -1..MaxWeight} \cup {PyInf, PyNaN, PyHugeInt, PyStr("1")}

WeightInputs ==
    {PyDict(d) : d \in DictsOver(EXPECTED_FEATURES,
                    [feature \in EXPECTED_FEATURES |-> WeightValues])}
    \cup {NoneArg, NotADict}

CostValues ==
    Levels \cup {PyStr("High"), PyStr(" high"), PyStr("bogus"), PyStr(""),
                 PyNone, PyInt(5)}

CostInputs ==
    {PyDict(d) : d \in DictsOver({"scalability", "security", "team_expertise"},
                    [k \in {"scalability", "security", "team_expertise"} |-> CostValues])}
    \cup {NoneArg}

CostProviders == Providers \cup {"oracle"}

\* user_input of a scoring call: the five preferences, each absent or a
\* level, and team_expertise (read by the cost penalty)
ScoreInputs ==
    {PyDict(d) : d \in DictsOver(EXPECTED_FEATURES \cup {"team_expertise"},
                    [k \in EXPECTED_FEATURES \cup {"team_expertise"} |->
                        IF k = "team_expertise" THEN {PyStr("low"), PyStr("high")}
                        ELSE Levels])}

\* the requests that state budget, scalability and security only, and the
\* ones that state all five preferences at one level
TunedInputs ==
    {u \in ScoreInputs :
        \/ DOMAIN u.d \cap {"ease_of_use", "free_tier"} = {}
        \/ \E level \in Levels : \A feature \in EXPECTED_FEATURES :
               Get(u.d, feature) = level}

\* user_input a scoring call rejects, or whose penalty step fails
BadScoreInputs ==
    {NotADict,
     PyDict(("budget" :> PyStr("High"))),
     PyDict(("security" :> PyList)),
     PyDict(("budget" :> PyStr("high")) @@ ("team_expertise" :> PyInt(3)))}

\* an override giving `focus` the weight w and every other feature `rest`
Override(focus, w, rest) ==
    PyDict([feature \in EXPECTED_FEATURES |->
               IF feature = focus THEN w ELSE PyInt(rest)])

\* weights of total 32, under which the exact score of some requests lies
\* halfway between two values of 4 decimals
HalvingOverride == Override("budget", PyInt(4), 7)

\* no override, one that is no mapping, one lacking keys, budget or
\* free_tier weighted 0 and up
\* beside four weights of 1, budget weighted 1/13 and up, inf, and the
\* weights of total 32
ScoreOverrides ==
    {NoneArg, NotADict, PyDict(("budget" :> PyInt(1))), HalvingOverride}
    \cup {Override(focus, PyInt(w), 1) : focus \in {"budget", "free_tier"},
                                         w \in 0..MaxScoreWeight}
    \cup {Override("budget", PyInt(w), MaxScoreWeight + 1) : w \in 1..MaxScoreWeight}
    \cup {Override("budget", PyInf, 1)}

Regions == {PyNone, PyStr("india"), PyStr("us"), PyStr("europe"), PyStr("US")}

\* the 4-decimal scores handed to compute_confidence: tenths from 0.0 on
ConfidenceScores == {1000 * k : k \in 0..MaxTenths}

ConfidenceInputs ==
    DictsOver(Providers, [provider_id \in Providers |-> ConfidenceScores])

\* user_input of an explanation: budget, scalability and security each
\* absent, a level, or a value the influence scale does not hold
ExplainInputs ==
    {PyDict(d) : d \in DictsOver({"budget", "scalability", "security"},
                    [k \in {"budget", "scalability", "security"} |->
                        Levels \cup {PyStr("High"), PyInt(9)}])}
    \cup {NotADict, NoneArg}

\* provider_scores of an explanation: no dict, an empty one, numeric scores
\* and scores that are not numbers
ExplainScores ==
    {NoneArg, NotADict, PyDict(EmptyDict),
     PyDict([aws |-> Score(60000), azure |-> Score(53333), gcp |-> Score(62222)]),
     PyDict([aws |-> Score(70000), azure |-> Score(0), gcp |-> Score(123405)]),
     PyDict([aws |-> ScoreNaN, azure |-> ScoreNaN, gcp |-> ScoreNaN])}

ExplainProviders ==
    {PyNone, PyStr(""), PyInt(1), PyStr("ibm"), PyStr("AWS")}
    \cup {PyStr(provider_id) : provider_id \in Providers}

\* service_model_result of an explanation: a rule result, one whose reason
\* is empty, a dict without a reason, and None
ExplainServiceResults ==
    {ServiceModelResult("PaaS", "Matched industry rule: healthcare. Recommended service model: PaaS."),
     ServiceModelResult("IaaS", ""),
     PyDict(EmptyDict),
     NoneArg}

\* the environment: each variable unset, empty, blank, or set
Environments ==
    [ENABLE_AI_EXPLANATION : {PyNone, PyStr(""), PyStr("false"), PyStr("0"),
                              PyStr("on"), PyStr("true"), PyStr(" True "),
                              PyStr("1"), PyStr("YES")},
     GEMINI_API_KEY : {PyNone, PyStr(""), PyStr("  "), PyStr("k3y"), PyStr(" k3y ")}]

\* a reply in the shape the service documents, with `text` as its text
GeminiReply(text) ==
    JObj(<<"candidates">>,
         <<JList(<<JObj(<<"content">>,
                        <<JObj(<<"parts">>,
                               <<JList(<<JObj(<<"text">>, <<text>>)>>)>>)>>)>>)>>)

\* the texts a reply may carry: a rewritten explanation, none, blanks
ReplyTexts == {" The recommendation is GCP. ", "", "  "}

\* the JSON values a reply may hold: a text, a value that is no string in
\* its place, and replies that lack a level or hold another type at it
GeminiReplies ==
    {GeminiReply(JStr(text)) : text \in ReplyTexts}
    \cup
    {GeminiReply(JNum), GeminiReply(JNull),
     JNull, JStr("busy"), JNum, JList(<<>>), JList(<<JNum>>), JObj(<<>>, <<>>),
     JObj(<<"error">>, <<JObj(<<"code">>, <<JNum>>)>>)}
    \cup {JObj(<<"candidates">>, <<candidates>>) :
              candidates \in {JNull, JList(<<>>), JList(<<JNum>>), JStr("none"),
                              JNum, JObj(<<"0">>, <<JNum>>),
                              JList(<<JObj(<<>>, <<>>)>>),
                              JList(<<JObj(<<"content">>, <<JStr("text")>>)>>),
                              JList(<<JObj(<<"content">>, <<JObj(<<>>, <<>>)>>)>>)}}
    \cup {JObj(<<"candidates">>,
               <<JList(<<JObj(<<"content">>, <<JObj(<<"parts">>, <<parts>>)>>)>>)>>) :
              parts \in {JNull, JList(<<>>), JList(<<JNum>>), JStr("ab"), JNum,
                         JObj(<<"text">>, <<JStr("x")>>),
                         JList(<<JObj(<<>>, <<>>)>>)}}

\* what the external call comes to: an exception of the network, of the
\* read, of the decoding or of the parse, an interrupt or exit of the
\* process while it waits, or a JSON value
ExternalReplies ==
    {Raised(ExceptionOf(cls)) : cls \in DOMAIN ExceptionAncestors}
    \cup {Replied(data) : data \in GeminiReplies}

\* explanations handed to the enhancer: no line, and lists that
\* generate_explanation returns
ExplanationLists ==
    {<<>>}
    \cup {generate_explanation(PyDict(EmptyDict), provider_scores, selected_provider,
                               ServiceModelResult("IaaS", "Matched team_expertise rule: high. Recommended service model: IaaS."),
                               Features) :
              provider_scores \in {NoneArg,
                                   PyDict([aws |-> Score(60000), azure |-> Score(53333),
                                           gcp |-> Score(62222)])},
              selected_provider \in {PyStr("gcp"), PyStr("ibm")}}

\* a body stating every required field, ease_of_use and free_tier "medium"
Body(budget, scalability, security, team_expertise, industry) ==
    PyDict([budget |-> budget, scalability |-> scalability, security |-> security,
            ease_of_use |-> PyStr("medium"), free_tier |-> PyStr("medium"),
            team_expertise |-> team_expertise, industry |-> industry])

\* the bodies of exact levels and industries: any three levels stated by a
\* general team of medium expertise, and one level throughout stated by a
\* team of any expertise and industry
ExactBodies ==
    {Body(budget, scalability, security, PyStr("medium"), PyStr("general")) :
        budget \in Levels, scalability \in Levels, security \in Levels}
    \cup {Body(level, level, level, team_expertise, PyStr(industry)) :
              level \in Levels, team_expertise \in Levels,
              industry \in INDUSTRY_VALUES}

MediumBody ==
    Body(PyStr("medium"), PyStr("medium"), PyStr("medium"), PyStr("medium"),
         PyStr("general"))

\* MediumBody with one field left out, or holding a value in another
\* spelling, of another vocabulary or of another type
OddBodies ==
    {PyDict([k \in DOMAIN MediumBody.d \ {field} |-> MediumBody.d[k]]) :
        field \in DOMAIN MediumBody.d}
    \cup {PyDict([k \in DOMAIN MediumBody.d |->
                     IF k = field THEN v ELSE MediumBody.d[k]]) :
             field \in DOMAIN MediumBody.d,
             v \in {PyStr("High"), PyStr(" low "), PyStr("bogus"), PyStr(""),
                    PyStr(" Healthcare"), PyStr("AI"), PyStr("finance"),
                    PyInt(3), PyNone, PyList}}

\* security weighted 2, scalability 1, the rest 0: aws and azure tie
TieWeights ==
    PyDict([feature \in EXPECTED_FEATURES |->
               IF feature = "security" THEN PyInt(2)
               ELSE IF feature = "scalability" THEN PyInt(1) ELSE PyInt(0)])

\* the "weights" member: absent, no object, and objects of numbers, of a
\* number JSON writes as Infinity or NaN, of an int of 400 digits, of a
\* string, of too few keys, of zeros
RouteWeights ==
    {NoneArg, NotADict, TieWeights,
     Override("free_tier", PyInt(MaxScoreWeight), 1),
     Override("budget", PyInf, 1), Override("budget", PyNaN, 1),
     Override("free_tier", PyHugeInt, 1), Override("budget", PyStr("1"), 1),
     PyDict(("budget" :> PyInt(1))), Override("budget", PyInt(0), 0)}

RouteRegions == {PyNone, PyStr("india"), PyStr(" US "), PyStr("mars"), PyInt(1)}

\* POST requests with a JSON object: the exact bodies without weights and
\* region, the odd bodies also with four of the weights and three of the
\* regions, MediumBody with every weights and region
JsonRequests ==
    {r \in [method : {"POST"}, is_json : {TRUE},
            data : ExactBodies \cup OddBodies, weights : RouteWeights,
            region : RouteRegions] :
        \/ r.data = MediumBody
        \/ r.weights = NoneArg /\ r.region = PyNone
        \/ /\ r.data \in OddBodies
           /\ r.weights \in {NoneArg, TieWeights, Override("budget", PyInf, 1),
                             Override("free_tier", PyHugeInt, 1)}
           /\ r.region \in {PyNone, PyStr("india"), PyStr(" US ")}}

\* the requests: also GET, a content type other than JSON, and bodies that
\* are no object or do not parse (get_json returns None)
Requests ==
    JsonRequests
    \cup [method : {"GET", "POST"}, is_json : {TRUE, FALSE},
          data : {MediumBody, NotADict, NoneArg}, weights : {NoneArg},
          region : {PyNone}]

\* the enhancer off
EnhancerOff == [ENABLE_AI_EXPLANATION |-> PyNone, GEMINI_API_KEY |-> PyNone]

\* the enhancer on
EnhancerOn == [ENABLE_AI_EXPLANATION |-> PyStr("true"), GEMINI_API_KEY |-> PyStr("k3y")]

\* what the external call of a request comes to: it times out, the process
\* is interrupted while it waits, it replies with a text or with blanks
RouteReplies ==
    {Raised(ExceptionOf("TimeoutError")), Raised(ExceptionOf("KeyboardInterrupt")),
     Replied(GeminiReply(JStr(" The recommendation is GCP. "))),
     Replied(GeminiReply(JStr("  ")))}

\* the orders in which a process may iterate the frozensets EXPECTED_FEATURES
\* and _FEATURE_NAMES (string hashing is seeded per process, and both sets
\* are built from the same keys in the same way): every arrangement of the
\* five names
RECURSIVE Arrangements(_)
Arrangements(names) ==
    IF names = {} THEN {<<>>}
    ELSE UNION {{<<name>> \o rest : rest \in Arrangements(names \ {name})} :
                   name \in names}

FeatureOrders == Arrangements(EXPECTED_FEATURES)

\* call, ret: the call being made and what it returned; featureOrder: the
\* order in which this process iterates its frozensets; heap: the objects
\* that outlive a call, i.e. the five tables of config.py and the caller's
\* user_input and custom_weights; scored: the first call of
\* calculate_provider_scores this process has answered, its result, and the
\* functions called since; urlopen: how often the call has called
\* urllib.request.urlopen, and what the last of these calls came to
VARIABLES call, ret, featureOrder, heap, scored, urlopen

vars == <<call, ret, featureOrder, heap, scored, urlopen>>

\* the call has not returned
Pending == [kind |-> "pending"]

\* the call waits in urlopen
Blocked == [kind |-> "blocked"]

\* the call has returned or raised
Done == ret.kind \notin {"pending", "blocked"}

RuleCalls ==
    {[fn |-> "determine_service_model", user_input |-> user_input] :
        user_input \in RuleInputs}

NormCalls ==
    {[fn |-> "_validate_and_normalize_user_input", user_input |-> user_input] :
        user_input \in NormInputs}

WeightCalls ==
    {[fn |-> "_select_weights", custom_weights |-> custom_weights] :
        custom_weights \in WeightInputs}

CostCalls ==
    {[fn |-> "calculate_estimated_cost", user_input |-> user_input,
      provider |-> provider] :
        user_input \in CostInputs, provider \in CostProviders}

\* every request is scored with the default weights and no region; the
\* requests of TunedInputs and the rejected ones also with every override
\* and region, the weights of total 32 with no region and team_expertise
\* left out
ScoreCalls ==
    {c \in [fn : {"calculate_provider_scores"},
            user_input : ScoreInputs \cup BadScoreInputs,
            custom_weights : ScoreOverrides, region : Regions] :
        /\ \/ c.custom_weights = NoneArg /\ c.region = PyNone
           \/ c.user_input \in TunedInputs \cup BadScoreInputs
        /\ c.custom_weights = HalvingOverride =>
               /\ c.region = PyNone
               /\ c.user_input.t = "dict" => "team_expertise" \notin DOMAIN c.user_input.d}

ConfidenceCalls ==
    {[fn |-> "compute_confidence", provider_scores |-> provider_scores] :
        provider_scores \in ConfidenceInputs}

\* every request is explained for gcp with numeric scores and a rule result;
\* the requests stating nothing or all three preferences alike also with
\* every other argument
ExplainCalls ==
    {c \in [fn : {"generate_explanation"},
            user_input : ExplainInputs,
            provider_scores : ExplainScores,
            selected_provider : ExplainProviders,
            service_model_result : ExplainServiceResults] :
        \/ /\ c.provider_scores =
                  PyDict([aws |-> Score(60000), azure |-> Score(53333), gcp |-> Score(62222)])
           /\ c.selected_provider = PyStr("gcp")
           /\ c.service_model_result # NoneArg
        \/ c.user_input.t # "dict"
        \/ \E level \in Levels : \A k \in {"budget", "scalability", "security"} :
               GetOr(c.user_input.d, k, level) = level}

EnhanceCalls ==
    [fn : {"enhance_explanation_with_ai"},
     original_explanation : ExplanationLists,
     environ : Environments]

\* every request with the enhancer off; the requests without weights and
\* region that are not of the exact bodies, and MediumBody, also with it on
RecommendCalls ==
    {[fn |-> "recommend", request |-> request, environ |-> EnhancerOff] :
        request \in Requests}
    \cup {[fn |-> "recommend", request |-> request, environ |-> EnhancerOn] :
             request \in {r \in Requests :
                              /\ r.weights = NoneArg /\ r.region = PyNone
                              /\ r.data \notin ExactBodies \ {MediumBody}}}

\* the calls a session starts with, with and without a region: rejected
\* requests with every override, and requests of one level throughout with
\* no override, one that is no mapping and one of numbers
SessionStarts ==
    {c \in ScoreCalls :
        /\ c.region \in {PyNone, PyStr("india")}
        /\ \/ c.user_input \in BadScoreInputs
           \/ /\ DOMAIN c.user_input.d = EXPECTED_FEATURES \cup {"team_expertise"}
              /\ c.user_input.d["team_expertise"] = PyStr("low")
              /\ \A feature \in EXPECTED_FEATURES :
                     c.user_input.d[feature] = c.user_input.d["budget"]
              /\ c.custom_weights \in
                     {NoneArg, NotADict, Override("budget", PyInt(1), MaxScoreWeight + 1)}}

\* the calls that follow in a session: the first call again, and the other
\* engine functions on the same user_input
SessionCallsOn(user_input, custom_weights, first) ==
    {[fn |-> "calculate_provider_scores", user_input |-> user_input,
      custom_weights |-> custom_weights, region |-> first.call.region],
     [fn |-> "determine_service_model", user_input |-> user_input]}
    \cup {[fn |-> "calculate_estimated_cost", user_input |-> user_input,
           provider |-> provider] : provider \in {"aws", "gcp"}}
    \cup (IF first.ret.kind # "ok" THEN {}
          ELSE {[fn |-> "generate_explanation", user_input |-> user_input,
                 provider_scores |-> PyDict(first.ret.val),
                 selected_provider |-> PyStr("aws"),
                 service_model_result |-> NoneArg]})

\* PROVIDER_CATALOG as config.py holds it: each provider's feature scores
\* and strengths under its id
ProviderCatalog ==
    [provider_id \in Providers |->
        [feature_scores |-> PROVIDER_CATALOG[provider_id],
         strengths      |-> PROVIDER_STRENGTHS[provider_id]]]

\* the objects that outlive the call c: the five tables as imported, and
\* the two arguments the caller holds
HeapOf(c) ==
    [PROVIDER_CATALOG          |-> ProviderCatalog,
     WEIGHT_CONFIG             |-> WEIGHT_CONFIG,
     REGION_PROVIDER_MODIFIERS |-> REGION_PROVIDER_MODIFIERS,
     MOCK_PRICING              |-> MOCK_PRICING,
     SERVICE_MODEL_RULES       |-> SERVICE_MODEL_RULES,
     user_input     |-> IF "user_input" \in DOMAIN c THEN c.user_input ELSE NoneArg,
     custom_weights |-> IF "custom_weights" \in DOMAIN c THEN c.custom_weights
                        ELSE NoneArg]

(***************************************************************************)
(* The four functions a session calls, each reading the tables where the   *)
(* code reads them, at the call, in the module's globals: `objects` is the *)
(* heap the call finds.  EXPECTED_FEATURES and _FEATURE_NAMES are          *)
(* frozensets made at import and read no table afterwards.                 *)
(***************************************************************************)
IndustryMatch_on(objects, user_input) ==
    LET industry == Get(user_input.d, "industry")
    IN  /\ industry.t = "str"
        /\ PyLower(PyStrip(industry.s)) \in objects.SERVICE_MODEL_RULES.industry

TeamExpertiseMatch_on(objects, user_input) ==
    LET team_expertise == Get(user_input.d, "team_expertise")
    IN  /\ team_expertise.t = "str"
        /\ PyLower(PyStrip(team_expertise.s))
               \in objects.SERVICE_MODEL_RULES.team_expertise

determine_service_model_on(objects, user_input) ==
    IF user_input.t # "dict" THEN Raise("TypeError", "user_input")
    ELSE IF IndustryMatch_on(objects, user_input)
    THEN LET industry_key  == PyLower(PyStrip(Get(user_input.d, "industry").s))
             service_model == TableGet(INDUSTRY_TO_SERVICE_MODEL, industry_key)
         IN  ServiceModelResult(service_model,
                 "Matched industry rule: " \o industry_key
                 \o ". Recommended service model: " \o service_model \o ".")
    ELSE IF TeamExpertiseMatch_on(objects, user_input)
    THEN LET expertise_key == PyLower(PyStrip(Get(user_input.d, "team_expertise").s))
             service_model == TableGet(TEAM_EXPERTISE_TO_SERVICE_MODEL, expertise_key)
         IN  ServiceModelResult(service_model,
                 "Matched team_expertise rule: " \o expertise_key
                 \o ". Recommended service model: " \o service_model \o ".")
    ELSE ServiceModelResult(DEFAULT_SERVICE_MODEL,
             "No industry or team_expertise rule matched. "
             \o "Using default service model: " \o DEFAULT_SERVICE_MODEL \o ".")

\* dict(WEIGHT_CONFIG)
WeightConfigCopy_on(objects) ==
    Weights([feature \in DOMAIN objects.WEIGHT_CONFIG |->
                Weight(objects.WEIGHT_CONFIG[feature], 100)],
            Features)

Normalized_on(objects, raw, order) ==
    LET anyNaN == \E feature \in EXPECTED_FEATURES : raw[feature].s = "nan"
        anyInf == \E feature \in EXPECTED_FEATURES : raw[feature].s = "inf"
        total  == SumOver([feature \in EXPECTED_FEATURES |-> raw[feature].n], order, 1)
    IN  IF anyNaN THEN Weights([feature \in EXPECTED_FEATURES |-> WeightNaN], order)
        ELSE IF anyInf
        THEN Weights([feature \in EXPECTED_FEATURES |->
                        IF raw[feature].s = "inf" THEN WeightNaN ELSE Weight(0, 1)],
                     order)
        ELSE IF ~TotalAboveZero(raw, order) THEN WeightConfigCopy_on(objects)
        ELSE Weights([feature \in EXPECTED_FEATURES |-> Weight(raw[feature].n, total)],
                     order)

_select_weights_on(objects, custom_weights, order) ==
    IF custom_weights.t = "none" THEN WeightConfigCopy_on(objects)
    ELSE IF custom_weights.t # "dict" THEN Raise("AttributeError", "custom_weights")
    ELSE LET stop == FirstStopping(custom_weights, order, 1)
         IN  IF stop = 0
             THEN Normalized_on(objects,
                                [feature \in EXPECTED_FEATURES |->
                                    Get(custom_weights.d, feature)], order)
             ELSE IF WeightCheck(custom_weights, order[stop]) = "fallback"
             THEN WeightConfigCopy_on(objects)
             ELSE Raise("OverflowError", order[stop])

calculate_estimated_cost_on(objects, user_input, provider) ==
    IF provider \notin DOMAIN objects.MOCK_PRICING THEN Ok(0)
    ELSE LET bases      == objects.MOCK_PRICING[provider]
             base_total == bases.base_compute + bases.base_storage
             raw        == IF user_input.t = "dict" THEN user_input.d ELSE EmptyDict
             scal       == OrMedium(raw, "scalability")
             sec        == OrMedium(raw, "security")
             expertise  == OrMedium(raw, "team_expertise")
         IN  IF scal.t # "str" THEN Raise("AttributeError", "scalability")
             ELSE IF sec.t # "str" THEN Raise("AttributeError", "security")
             ELSE IF expertise.t # "str" THEN Raise("AttributeError", "team_expertise")
             ELSE LET mult == ExpertiseStep(
                                  SecurityStep(
                                      ScalabilityStep(Lit_1_0, PyLower(scal.s)),
                                      PyLower(sec.s)),
                                  PyLower(expertise.s))
                  IN  Ok(PyRound(FMul(FFromInt(base_total), mult), 1))

\* feature_scores = provider_data["feature_scores"]
FeatureScores_on(objects, provider_id) ==
    objects.PROVIDER_CATALOG[provider_id].feature_scores

WeightedScore_on(objects, weights, items, intensity, provider_id) ==
    IF \E feature \in EXPECTED_FEATURES : weights[feature].nan THEN ScoreNaN
    ELSE Score(RoundedSum(
             WeightedSum(weights, intensity, FeatureScores_on(objects, provider_id), 1),
             intensity[Features[1]].d * weights[Features[1]].d,
             weights, items, intensity, FeatureScores_on(objects, provider_id)))

RegionApplies_on(objects, region) ==
    /\ Truthy(region)
    /\ region.t = "str"
    /\ region.s \in DOMAIN objects.REGION_PROVIDER_MODIFIERS

\* modifiers = REGION_PROVIDER_MODIFIERS[region]
WithModifier_on(objects, score, region, provider_id) ==
    IF score.nan THEN ScoreNaN
    ELSE Score(PyRound(
             FAdd(D4(score.v),
                  FRatio(objects.REGION_PROVIDER_MODIFIERS[region.s][provider_id], 10)),
             10000))

ScoresBeforePenalty_on(objects, intensity, weights, items, region) ==
    [provider_id \in DOMAIN objects.PROVIDER_CATALOG |->
        LET base == WeightedScore_on(objects, weights, items, intensity, provider_id)
        IN  IF RegionApplies_on(objects, region)
            THEN WithModifier_on(objects, base, region, provider_id)
            ELSE base]

RECURSIVE CostsFrom_on(_, _, _)
CostsFrom_on(objects, user_input, i) ==
    IF i > Len(ProviderIds) THEN <<>>
    ELSE <<calculate_estimated_cost_on(objects, user_input, ProviderIds[i])>>
         \o CostsFrom_on(objects, user_input, i + 1)

\* result holds the providers in the order of the catalog, ProviderIds
ScoresGiven_on(objects, user_input, intensity, weights, region) ==
    IF intensity.kind = "raise" THEN intensity
    ELSE IF weights.kind = "raise" THEN weights
    ELSE AfterPenalty(user_input,
                      ScoresBeforePenalty_on(objects, intensity.val, weights.val,
                                             weights.items, region),
                      CostsFrom_on(objects, user_input, 1))

calculate_provider_scores_on(objects, user_input, custom_weights, region, order) ==
    ScoresGiven_on(objects, user_input,
                   _validate_and_normalize_user_input(user_input, order),
                   _select_weights_on(objects, custom_weights, order),
                   region)

InfluenceOf_on(objects, user_input, feature) ==
    objects.WEIGHT_CONFIG[feature]
    * (IF GetOr(user_input.d, feature, PyStr("medium")).t = "str"
          /\ GetOr(user_input.d, feature, PyStr("medium")).s \in DOMAIN _INFLUENCE_SCALE
       THEN _INFLUENCE_SCALE[GetOr(user_input.d, feature, PyStr("medium")).s]
       ELSE 6)

RECURSIVE SortedByInfluence_on(_, _, _, _)
SortedByInfluence_on(objects, user_input, order, n) ==
    IF n = 0 THEN <<>>
    ELSE InsertByInfluence(<<order[n], InfluenceOf_on(objects, user_input, order[n])>>,
                           SortedByInfluence_on(objects, user_input, order, n - 1))

_rank_criteria_by_influence_on(objects, user_input, top_n, order) ==
    IF user_input.t # "dict" THEN <<>>
    ELSE SubSeq(SortedByInfluence_on(objects, user_input, order, Len(order)), 1, top_n)

\* provider_data = PROVIDER_CATALOG.get(selected_provider);
\* strengths = provider_data.get("strengths")
_provider_explanation_on(objects, selected_provider, provider_scores, user_input, order) ==
    IF ~(/\ Truthy(selected_provider)
         /\ selected_provider.t = "str"
         /\ selected_provider.s \in DOMAIN objects.PROVIDER_CATALOG)
    THEN <<"Provider selection could not be explained (unknown or missing provider).">>
    ELSE <<SelectionLine(selected_provider, provider_scores,
                         CriteriaNames(_rank_criteria_by_influence_on(
                             objects,
                             IF Truthy(user_input) THEN user_input
                             ELSE PyDict(EmptyDict),
                             3, order))),
           "Key strengths: "
           \o Join(SubSeq(objects.PROVIDER_CATALOG[selected_provider.s].strengths, 1, 3),
                   "; ")
           \o ".">>

generate_explanation_on(objects, user_input, provider_scores, selected_provider, service_model_result, order) ==
    (IF provider_scores.t # "dict"
     THEN <<"Provider recommendation explanation is unavailable.">>
     ELSE _provider_explanation_on(
              objects,
              IF Truthy(selected_provider) THEN selected_provider ELSE PyStr(""),
              provider_scores,
              IF user_input.t = "dict" THEN user_input ELSE PyDict(EmptyDict),
              order))
    \o <<ReasonLine(service_model_result)>>

(***************************************************************************)
(* What a call leaves behind.  Every name the four functions and their     *)
(* helpers bind to a dict or a list is listed with the object it is bound  *)
(* to, and every statement that stores into one (d[k] = v, append, sort)   *)
(* with the name it stores through.                                        *)
(***************************************************************************)
\* the locals the code binds to an object it did not create: a table, a
\* part of a table, or an argument of the caller.  `raw = user_input or {}`
\* is the caller's user_input when that is truthy, and a new dict otherwise
AliasOf(c, local) ==
    CASE local = "calculate_estimated_cost.bases"           -> "MOCK_PRICING"
      [] local = "calculate_estimated_cost.raw"             ->
             IF "user_input" \in DOMAIN c /\ Truthy(c.user_input) THEN "user_input"
             ELSE "fresh"
      [] local = "calculate_provider_scores.provider_data"  -> "PROVIDER_CATALOG"
      [] local = "calculate_provider_scores.feature_scores" -> "PROVIDER_CATALOG"
      [] local = "calculate_provider_scores.modifiers"      -> "REGION_PROVIDER_MODIFIERS"
      [] local = "determine_service_model.industry_rules"   -> "SERVICE_MODEL_RULES"
      [] local = "determine_service_model.expertise_rules"  -> "SERVICE_MODEL_RULES"
      [] local = "_provider_explanation.provider_data"      -> "PROVIDER_CATALOG"
      [] local = "_provider_explanation.strengths"          -> "PROVIDER_CATALOG"
      [] OTHER -> "fresh"

\* the object each local is bound to, but _select_weights normalises
\* custom_weights in place
BoundTo_in_place(c, local) ==
    IF local = "_select_weights.normalized" THEN "custom_weights"
    ELSE AliasOf(c, local)

\* the object each local of the call c is bound to: the name of the table
\* or argument it is, or is part of, and "fresh" for an object the call
\* created ({} or [] or a comprehension)
BoundTo(c, local) ==
    CASE local \in {"_validate_and_normalize_user_input.normalized",
                    "_select_weights.raw",
                    "_select_weights.normalized",
                    "calculate_provider_scores.result",
                    "calculate_provider_scores.costs",
                    "_rank_criteria_by_influence.influence_list",
                    "_provider_explanation.lines",
                    "generate_explanation.result"} -> "fresh"
      [] OTHER -> AliasOf(c, local)

\* the features of the first n turns of a loop over `order`
Turns(order, n) == {order[i] : i \in 1..n}

\* the stores of _validate_and_normalize_user_input: one for each turn of
\* the loop before the one that raises, and for every turn when none does
StoredByValidation(user_input, order) ==
    IF user_input.t # "dict" THEN {}
    ELSE LET bad    == FirstFailing(user_input, order, 1)
             passed == IF bad = 0 THEN Len(order) ELSE bad - 1
         IN  IF passed = 0 THEN {}
             ELSE {[local |-> "_validate_and_normalize_user_input.normalized",
                    d |-> [feature \in Turns(order, passed) |->
                              Rat(QUALITATIVE_SCALE[GetOr(user_input.d, feature,
                                                           PyStr("medium")).s], 9)]]}

\* the stores of _select_weights, which returns `weights`: the coerced
\* value of each turn of the loop before the one that returns or raises (of
\* every turn when none does), and the normalisation when the loop has
\* ended and the total is not 0
StoredBySelection(custom_weights, weights, order) ==
    IF custom_weights.t # "dict" THEN {}
    ELSE LET stop   == FirstStopping(custom_weights, order, 1)
             passed == IF stop = 0 THEN Len(order) ELSE stop - 1
         IN  (IF passed = 0 THEN {}
              ELSE {[local |-> "_select_weights.raw",
                     d |-> [feature \in Turns(order, passed) |->
                               custom_weights.d[feature]]]})
             \cup (IF stop # 0
                      \/ ~TotalAboveZero([feature \in EXPECTED_FEATURES |->
                                             custom_weights.d[feature]], order)
                   THEN {}
                   ELSE {[local |-> "_select_weights.normalized", d |-> weights.val]})

\* the stores of calculate_provider_scores into result once validation and
\* weight selection have returned `intensity` and `weights`: the scores it
\* returns, or those before the penalty when a cost estimate raises
StoredByScoring(objects, c, intensity, weights, result) ==
    IF intensity.kind # "ok" \/ weights.kind # "ok" THEN {}
    ELSE {[local |-> "calculate_provider_scores.result",
           d |-> IF result.kind = "ok" THEN result.val
                 ELSE ScoresBeforePenalty_on(objects, intensity.val, weights.val,
                                             weights.items, c.region)]}

\* the appends and the sort of generate_explanation and the two helpers it
\* calls, for the lines `result` it returns.  _provider_explanation appends
\* to lines, and influence_list is filled and sorted, when the provider is in
\* the catalog; otherwise it returns a list of its own and lines stays empty
StoredByExplanation(objects, c, result, order) ==
    {[local |-> "generate_explanation.result", d |-> result]}
    \cup (IF Len(result) < 3 THEN {}
          ELSE {[local |-> "_provider_explanation.lines",
                 d |-> SubSeq(result, 1, Len(result) - 1)],
                [local |-> "_rank_criteria_by_influence.influence_list",
                 d |-> SortedByInfluence_on(
                           objects,
                           IF c.user_input.t = "dict" THEN c.user_input
                           ELSE PyDict(EmptyDict),
                           order, Len(order))]})

\* what the call c has stored, and through which local, when it returns or
\* raises `result` on the heap `objects`; the cost estimate and the rule
\* engine store into nothing
Stored(objects, c, result, order) ==
    CASE c.fn = "_validate_and_normalize_user_input" ->
             StoredByValidation(c.user_input, order)
      [] c.fn = "_select_weights" ->
             StoredBySelection(c.custom_weights, result, order)
      [] c.fn = "calculate_provider_scores" ->
             StoredByValidation(c.user_input, order)
             \cup (IF _validate_and_normalize_user_input(c.user_input, order).kind # "ok"
                   THEN {}
                   ELSE StoredBySelection(c.custom_weights,
                            _select_weights_on(objects, c.custom_weights, order),
                            order)
                        \cup StoredByScoring(
                                 objects, c,
                                 _validate_and_normalize_user_input(c.user_input, order),
                                 _select_weights_on(objects, c.custom_weights, order),
                                 result))
      [] c.fn = "generate_explanation" ->
             StoredByExplanation(objects, c, result.val, order)
      [] OTHER -> {}

\* an object of the heap after d was stored into it
Overwritten(object, d) ==
    IF DOMAIN object = {"t", "d"} THEN [t |-> object.t, d |-> d @@ object.d]
    ELSE d @@ object

\* the heap after the stores of the call c: a store changes the object its
\* local is bound to, and no object of the heap when that one is fresh
Written(objects, c, stored) ==
    [name \in DOMAIN objects |->
        IF \E st \in stored : BoundTo(c, st.local) = name
        THEN Overwritten(objects[name],
                         (CHOOSE st \in stored : BoundTo(c, st.local) = name).d)
        ELSE objects[name]]

\* a process has imported the engine (the iteration order of its frozensets
\* is settled) and a caller is about to make one call
InitWith(calls, orders) ==
    /\ call \in calls
    /\ featureOrder \in orders
    /\ ret = Pending
    /\ heap = HeapOf(call)
    /\ scored = Pending
    /\ urlopen = [calls |-> 0, reply |-> NoReply]

\* the call returns: the objects its stores went to are written, and the
\* first scoring call is remembered with its result
Returns(fn, result) ==
    /\ call.fn = fn
    /\ ret = Pending
    /\ ret' = result
    /\ heap' = Written(heap, call, Stored(heap, call, result, featureOrder))
    /\ scored' = IF scored # Pending
                 THEN [scored EXCEPT !.since = Append(@, fn)]
                 ELSE IF fn = "calculate_provider_scores"
                 THEN [call |-> call, ret |-> result, since |-> <<>>]
                 ELSE scored
    /\ UNCHANGED <<call, featureOrder, urlopen>>

\* the caller of a session makes its next call, on the objects it holds
NextCall ==
    /\ ret # Pending
    /\ scored # Pending
    /\ scored.call \in SessionStarts
    /\ Len(scored.since) < MaxSessionCalls
    /\ call' \in SessionCallsOn(heap.user_input, heap.custom_weights, scored)
    /\ ret' = Pending
    /\ UNCHANGED <<featureOrder, heap, scored, urlopen>>

DetermineServiceModel ==
    Returns("determine_service_model", determine_service_model(call.user_input))

ValidateAndNormalize ==
    Returns("_validate_and_normalize_user_input",
            _validate_and_normalize_user_input(call.user_input, featureOrder))

SelectWeights ==
    Returns("_select_weights", _select_weights(call.custom_weights, featureOrder))

CalculateEstimatedCost ==
    Returns("calculate_estimated_cost",
            calculate_estimated_cost(call.user_input, call.provider))

CalculateProviderScores ==
    Returns("calculate_provider_scores",
            calculate_provider_scores(call.user_input, call.custom_weights,
                                      call.region, featureOrder))

ComputeConfidence ==
    Returns("compute_confidence", Ok(compute_confidence(call.provider_scores)))

GenerateExplanation ==
    Returns("generate_explanation",
            Ok(generate_explanation(call.user_input, call.provider_scores,
                                    call.selected_provider,
                                    call.service_model_result, featureOrder)))

\* the call gets to urlopen and waits there for the reply
Blocks(fn) ==
    /\ call.fn = fn
    /\ ret = Pending
    /\ ret' = Blocked
    /\ urlopen' = [urlopen EXCEPT !.calls = @ + 1]
    /\ UNCHANGED <<call, featureOrder, heap, scored>>

\* urlopen comes to `reply`, and the call that waited runs to its end; it
\* stores into no object of the heap
Resumes(fn, reply, result) ==
    /\ call.fn = fn
    /\ ret = Blocked
    /\ ret' = result
    /\ urlopen' = [urlopen EXCEPT !.reply = reply]
    /\ UNCHANGED <<call, featureOrder, heap, scored>>

\* the enhancer up to urlopen: it returns before, or it waits there
EnhanceExplanationWithAi ==
    /\ call.fn = "enhance_explanation_with_ai"
    /\ IF ReachesUrlopen(ENABLE_AI_EXPLANATION(call.environ),
                         GEMINI_API_KEY(call.environ))
       THEN Blocks("enhance_explanation_with_ai")
       ELSE Returns("enhance_explanation_with_ai",
                    enhance_explanation_with_ai(call.original_explanation,
                                                call.environ, NoReply))

\* the enhancer from the reply on
EnhancerResumes ==
    \E reply \in ExternalReplies :
        Resumes("enhance_explanation_with_ai", reply,
                enhance_explanation_with_ai(call.original_explanation,
                                            call.environ, reply))

\* the handler gets to the enhancer, which depends on neither the
\* environment nor the reply
CallsEnhancer(request, order) ==
    LET calls == recommend(request, order, EnhancerOff, NoReply).calls
    IN  \E i \in 1..Len(calls) : calls[i] = "enhance_explanation_with_ai"

\* the handler up to urlopen: it answers before, or it waits there
Recommend ==
    /\ call.fn = "recommend"
    /\ IF /\ ReachesUrlopen(ENABLE_AI_EXPLANATION(call.environ),
                            GEMINI_API_KEY(call.environ))
          /\ CallsEnhancer(call.request, featureOrder)
       THEN Blocks("recommend")
       ELSE Returns("recommend",
                    recommend(call.request, featureOrder, call.environ, NoReply))

\* the handler from the reply on
RecommendResumes ==
    \E reply \in RouteReplies :
        Resumes("recommend", reply,
                recommend(call.request, featureOrder, call.environ, reply))

\* determine_service_model, calculate_estimated_cost, compute_confidence and
\* enhance_explanation_with_ai iterate no frozenset: their calls are drawn
\* under one iteration order
SpecRules == InitWith(RuleCalls, {Features}) /\ [][DetermineServiceModel]_vars

SpecNorm == InitWith(NormCalls, FeatureOrders) /\ [][ValidateAndNormalize]_vars

\* _select_weights stops at the first key, in iteration order, whose value
\* it cannot use.  Which key that is decides the outcome only when one of
\* the values is an int float() overflows on (every other such value makes
\* it return the default weights): those overrides are drawn under every
\* order, the others under one
OverflowingWeightCalls ==
    {c \in WeightCalls : \E feature \in DOMAIN c.custom_weights.d :
                             c.custom_weights.d[feature] = PyHugeInt}

\* the overrides _select_weights normalises: the dict it returns holds its
\* keys in the iteration order, so these are drawn under every order too
NormalizedWeightCalls ==
    {c \in WeightCalls \ OverflowingWeightCalls :
        LET weights == _select_weights(c.custom_weights, Features)
        IN  weights.kind = "ok" /\ weights # WeightConfigCopy}

InitWeights ==
    \/ InitWith(WeightCalls \ NormalizedWeightCalls, {Features})
    \/ InitWith(OverflowingWeightCalls \cup NormalizedWeightCalls, FeatureOrders)

SpecWeights == InitWeights /\ [][SelectWeights]_vars

SpecCost == InitWith(CostCalls, {Features}) /\ [][CalculateEstimatedCost]_vars

\* the call c is one validation rejects, whatever the iteration order
RejectedByValidation(c) ==
    _validate_and_normalize_user_input(c.user_input, Features).kind = "raise"

\* which exception a rejected request raises depends on the iteration
\* order
RejectedScoreCalls == {c \in ScoreCalls : RejectedByValidation(c)}

\* the exact score of some provider for the call c lies halfway between two
\* values of 4 decimals
HalvedByWeights(c) ==
    LET intensity == _validate_and_normalize_user_input(c.user_input, Features)
        weights   == _select_weights(c.custom_weights, Features)
    IN  /\ intensity.kind = "ok"
        /\ weights.kind = "ok"
        /\ \A feature \in EXPECTED_FEATURES : ~weights.val[feature].nan
        /\ \E provider_id \in Providers :
               HalfWay(WeightedSum(weights.val, intensity.val,
                                   PROVIDER_CATALOG[provider_id], 1),
                       intensity.val[Features[1]].d * weights.val[Features[1]].d)

\* the scores of an accepted request depend on the iteration order where an
\* exact score is halfway (see RoundedSum) and nowhere else: those calls
\* and the rejected ones are drawn under every order, the others under one
HalvedScoreCalls == {c \in ScoreCalls \ RejectedScoreCalls : HalvedByWeights(c)}

InitScores ==
    \/ InitWith(ScoreCalls \ (RejectedScoreCalls \cup HalvedScoreCalls), {Features})
    \/ InitWith(RejectedScoreCalls \cup HalvedScoreCalls, FeatureOrders)

SpecScores == InitScores /\ [][CalculateProviderScores]_vars

SpecConfidence == InitWith(ConfidenceCalls, {Features}) /\ [][ComputeConfidence]_vars

SpecExplain == InitWith(ExplainCalls, FeatureOrders) /\ [][GenerateExplanation]_vars

SpecEnhance ==
    InitWith(EnhanceCalls, {Features})
    /\ [][EnhanceExplanationWithAi \/ EnhancerResumes]_vars

\* the handler answering the call c goes on to generate_explanation
ReachesExplanation(c) ==
    Len(recommend(c.request, Features, EnhancerOff, NoReply).calls) > 2

\* the answer to a request depends on the iteration order through the
\* criteria its explanation names, which the order settles where influences
\* tie: the requests that are explained are drawn under every order, the
\* ones answered before that under one
ExplainedRecommendCalls == {c \in RecommendCalls : ReachesExplanation(c)}

InitRecommend ==
    \/ InitWith(RecommendCalls \ ExplainedRecommendCalls, {Features})
    \/ InitWith(ExplainedRecommendCalls, FeatureOrders)

SpecRecommend == InitRecommend /\ [][Recommend \/ RecommendResumes]_vars

\* the four functions as a session calls them: each reads the tables of the
\* heap the call finds
ScoresInSession ==
    Returns("calculate_provider_scores",
            calculate_provider_scores_on(heap, call.user_input, call.custom_weights,
                                         call.region, featureOrder))

CostInSession ==
    Returns("calculate_estimated_cost",
            calculate_estimated_cost_on(heap, call.user_input, call.provider))

ServiceModelInSession ==
    Returns("determine_service_model",
            determine_service_model_on(heap, call.user_input))

ExplanationInSession ==
    Returns("generate_explanation",
            Ok(generate_explanation_on(heap, call.user_input, call.provider_scores,
                                       call.selected_provider,
                                       call.service_model_result, featureOrder)))

\* a session: one process, one caller, the first call followed by further
\* calls on the same objects
SessionNext ==
    \/ ScoresInSession
    \/ CostInSession
    \/ ServiceModelInSession
    \/ ExplanationInSession
    \/ NextCall

\* the first call of the session starting with c returns scores
ScoredStart(c) ==
    calculate_provider_scores(c.user_input, c.custom_weights, c.region, Features).kind = "ok"

\* a session whose first call returns scores may go on to explain them, and
\* the explanation depends on the iteration order: these sessions are drawn
\* under every order, the ones whose first call raises under one
ScoredSessionStarts == {c \in SessionStarts : ScoredStart(c)}

InitSession ==
    \/ InitWith(SessionStarts \ ScoredSessionStarts, {Features})
    \/ InitWith(ScoredSessionStarts, FeatureOrders)

SpecSession == InitSession /\ [][SessionNext]_vars

Init ==
    \/ InitWith(RuleCalls, {Features})
    \/ InitWith(CostCalls, {Features})
    \/ InitWith(ConfidenceCalls, {Features})
    \/ InitWith(EnhanceCalls, {Features})
    \/ InitWith(NormCalls, FeatureOrders)
    \/ InitWith(ExplainCalls, FeatureOrders)
    \/ InitWeights
    \/ InitScores
    \/ InitRecommend
    \/ InitSession

Next ==
    \/ DetermineServiceModel
    \/ ValidateAndNormalize
    \/ SelectWeights
    \/ CalculateEstimatedCost
    \/ CalculateProviderScores
    \/ ComputeConfidence
    \/ GenerateExplanation
    \/ EnhanceExplanationWithAi
    \/ EnhancerResumes
    \/ Recommend
    \/ RecommendResumes
    \/ ScoresInSession
    \/ CostInSession
    \/ ServiceModelInSession
    \/ ExplanationInSession
    \/ NextCall

Spec == Init /\ [][Next]_vars
(***************************************************************************)
(* determine_service_model: precedence and fall-through.                   *)
(***************************************************************************)
\* C1: whenever user_input's industry is a string whose trimmed, lower-cased
\* form is a key of the industry rule table, determine_service_model
\* returns that industry's mapped model with a reason citing that key,
\* whatever team_expertise is; healthcare with team_expertise low is PaaS.
C1_IndustryPrecedence ==
    (call.fn = "determine_service_model" /\ ret # Pending
        /\ call.user_input.t = "dict") =>
    LET industry == Get(call.user_input.d, "industry")
        key      == PyLower(PyStrip(industry.s))
        cites    == "Matched industry rule: " \o key \o "."
    IN  /\ (industry.t = "str" /\ key \in SERVICE_MODEL_RULES.industry) =>
               /\ ret.kind = "ok"
               /\ ret.service_model = INDUSTRY_TO_SERVICE_MODEL[key]
               /\ SubSeq(ret.reason, 1, Len(cites)) = cites
        /\ (industry = PyStr("healthcare")
                /\ Get(call.user_input.d, "team_expertise") = PyStr("low")) =>
               ret.kind = "ok" /\ ret.service_model = "PaaS"

\* C1's case: a padded, capitalised healthcare beside team_expertise low
\* has returned PaaS
C1_HealthcareBesideLow ==
    /\ call.fn = "determine_service_model"
    /\ call.user_input = PyDict(("industry" :> PyStr(" Healthcare "))
                                @@ ("team_expertise" :> PyStr("low")))
    /\ ret # Pending
    /\ ret.service_model = "PaaS"

\* C4: when neither industry nor team_expertise is a string whose trimmed,
\* lower-cased form is a key of its rule table, the result is IaaS with the
\* generic reason; a call raises exactly when its argument is no dict, and
\* then TypeError.
C4_DefaultFallThrough ==
    (call.fn = "determine_service_model" /\ ret # Pending) =>
    LET isdict   == call.user_input.t = "dict"
        matches(key, table) ==
            LET v == Get(call.user_input.d, key)
            IN  v.t = "str" /\ PyLower(PyStrip(v.s)) \in table
    IN  /\ (ret.kind = "raise") <=> ~isdict
        /\ ret.kind = "raise" => ret.exc = "TypeError"
        /\ (isdict /\ ~matches("industry", SERVICE_MODEL_RULES.industry)
                   /\ ~matches("team_expertise", SERVICE_MODEL_RULES.team_expertise)) =>
               /\ ret.kind = "ok"
               /\ ret.service_model = "IaaS"
               /\ ret.reason = "No industry or team_expertise rule matched. "
                               \o "Using default service model: IaaS."

\* C4's case: industry general beside team_expertise none has fallen through
C4_GeneralBesideNone ==
    /\ call.fn = "determine_service_model"
    /\ call.user_input = PyDict(("industry" :> PyStr("general"))
                                @@ ("team_expertise" :> PyStr("none")))
    /\ ret # Pending
    /\ ret.service_model = "IaaS"
    /\ ret.reason = "No industry or team_expertise rule matched. "
                    \o "Using default service model: IaaS."

(***************************************************************************)
(* calculate_estimated_cost.                                               *)
(***************************************************************************)
\* C3 as the spec words it: for a known provider the estimate is
\* (base_compute + base_storage) * m rounded to the nearest integer, with
\* m = 1.0 + (0.30 scalability high, 0.15 medium, 0 low or absent)
\*         + (0.20 security high, 0.10 medium, 0 otherwise)
\*         + (0.10 team_expertise low, 0 otherwise),
\* so that an absent scalability costs what scalability low costs; an
\* unknown provider costs 0.  (m is held in hundredths; "nearest" allows
\* either neighbour of an exact half.)
C3_AbsentCountsAsLow ==
    (/\ call.fn = "calculate_estimated_cost"
     /\ ret # Pending
     /\ call.user_input.t = "dict"
     /\ \A key \in DOMAIN call.user_input.d : call.user_input.d[key] \in Levels) =>
    LET level(key) == IF key \in DOMAIN call.user_input.d
                      THEN call.user_input.d[key].s ELSE "absent"
        scal == level("scalability")
        sec  == level("security")
        m    == 100 + (IF scal = "high" THEN 30 ELSE IF scal = "medium" THEN 15 ELSE 0)
                    + (IF sec = "high" THEN 20 ELSE IF sec = "medium" THEN 10 ELSE 0)
                    + (IF level("team_expertise") = "low" THEN 10 ELSE 0)
    IN  /\ ret.kind = "ok"
        /\ call.provider \notin DOMAIN MOCK_PRICING => ret.val = 0
        /\ call.provider \in DOMAIN MOCK_PRICING =>
               LET base == MOCK_PRICING[call.provider].base_compute
                           + MOCK_PRICING[call.provider].base_storage
               IN  /\ 100 * ret.val - base * m <= 50
                   /\ base * m - 100 * ret.val <= 50
                   /\ "scalability" \notin DOMAIN call.user_input.d =>
                          ret = calculate_estimated_cost(
                                    PyDict(("scalability" :> PyStr("low"))
                                           @@ call.user_input.d),
                                    call.provider)

\* C3, amended: scalability, security and team_expertise are each read as
\* "medium" when absent, None or empty, and case-insensitively otherwise
\* (a string that names no level adds nothing).  For a known provider and
\* such a user_input (or none) the estimate is
\* (base_compute + base_storage) * m rounded to the nearest integer, with
\* m = 1.0 + (0.30 scalability high, 0.15 medium or absent, 0 otherwise)
\*         + (0.20 security high, 0.10 medium or absent, 0 otherwise)
\*         + (0.10 team_expertise low, 0 otherwise),
\* so an absent scalability costs what scalability medium costs.  An
\* unknown provider costs 0.
C3_AbsentCountsAsMedium ==
    (call.fn = "calculate_estimated_cost" /\ ret # Pending) =>
    LET given == IF call.user_input.t = "dict" THEN call.user_input.d ELSE EmptyDict
        read(key) == \* the level the estimate is computed for
            IF key \notin DOMAIN given \/ given[key] \in {PyNone, PyStr("")}
            THEN "medium"
            ELSE PyLower(given[key].s)
        covered == \A key \in DOMAIN given : given[key].t \in {"str", "none"}
        scal == read("scalability")
        sec  == read("security")
        m    == 100 + (IF scal = "high" THEN 30 ELSE IF scal = "medium" THEN 15 ELSE 0)
                    + (IF sec = "high" THEN 20 ELSE IF sec = "medium" THEN 10 ELSE 0)
                    + (IF read("team_expertise") = "low" THEN 10 ELSE 0)
    IN  /\ call.provider \notin DOMAIN MOCK_PRICING => ret = Ok(0)
        /\ (covered /\ call.provider \in DOMAIN MOCK_PRICING) =>
               LET base == MOCK_PRICING[call.provider].base_compute
                           + MOCK_PRICING[call.provider].base_storage
               IN  /\ ret.kind = "ok"
                   /\ 100 * ret.val - base * m <= 50
                   /\ base * m - 100 * ret.val <= 50
                   /\ "scalability" \notin DOMAIN given =>
                          ret = calculate_estimated_cost(
                                    PyDict(("scalability" :> PyStr("medium")) @@ given),
                                    call.provider)

\* C3's case: aws with nothing stated has been estimated at 160 * 1.25 = 200,
\* which is not the 160 of a request stating low, low and high
C3_NothingStatedIsMedium ==
    /\ call.fn = "calculate_estimated_cost"
    /\ call.user_input = PyDict(EmptyDict)
    /\ call.provider = "aws"
    /\ ret = Ok(200)

(***************************************************************************)
(* _validate_and_normalize_user_input and _select_weights.                 *)
(***************************************************************************)
\* C10: _validate_and_normalize_user_input raises TypeError when its
\* argument is no dict, raises ValueError when any of the five features is
\* present with a value other than low, medium or high, and otherwise
\* returns the five features' intensities: 6/9 when absent, 3/9 low,
\* 6/9 medium, 9/9 high.
C10_ValidateAndNormalize ==
    (call.fn = "_validate_and_normalize_user_input" /\ ret # Pending) =>
    IF call.user_input.t # "dict"
    THEN ret.kind = "raise" /\ ret.exc = "TypeError"
    ELSE LET given == call.user_input.d
         IN  IF \E feature \in EXPECTED_FEATURES \cap DOMAIN given :
                    given[feature] \notin Levels
             THEN ret.kind = "raise" /\ ret.exc = "ValueError"
             ELSE /\ ret.kind = "ok"
                  /\ DOMAIN ret.val = {"budget", "scalability", "security",
                                       "ease_of_use", "free_tier"}
                  /\ \A feature \in DOMAIN ret.val :
                         /\ ret.val[feature].d = 9
                         /\ ret.val[feature].n =
                                IF feature \notin DOMAIN given THEN 6
                                ELSE CASE given[feature].s = "low"    -> 3
                                       [] given[feature].s = "medium" -> 6
                                       [] given[feature].s = "high"   -> 9
                         /\ 0 < ret.val[feature].n
                         /\ ret.val[feature].n <= ret.val[feature].d

\* C10's failing case: a list under budget has raised TypeError
C10_ListRaisesTypeError ==
    /\ call.fn = "_validate_and_normalize_user_input"
    /\ call.user_input = PyDict(("budget" :> PyList))
    /\ ret = Raise("TypeError", "budget")

\* C5: _select_weights never raises and returns five non-negative weights
\* summing to 1; for an override holding a non-negative number under each
\* of the five keys, with a positive sum, these are value / sum, and for
\* no override or any other override they are the WEIGHT_CONFIG weights.
C5_SelectWeights ==
    (call.fn = "_select_weights" /\ ret # Pending) =>
    LET given   == call.custom_weights.d
        numeric(v) == v.t \in {"int", "float"}
        finite  == \A feature \in DOMAIN given :
                       numeric(given[feature]) => given[feature].s = ""
        total   == SumOver([feature \in EXPECTED_FEATURES |-> given[feature].n],
                           Features, 1)
        valid   == /\ call.custom_weights.t = "dict"
                   /\ EXPECTED_FEATURES \subseteq DOMAIN given
                   /\ \A feature \in EXPECTED_FEATURES :
                          numeric(given[feature]) /\ given[feature].n >= 0
                   /\ total > 0
    IN  /\ ret.kind = "ok"
        /\ \A feature \in EXPECTED_FEATURES :
               ~ret.val[feature].nan /\ ret.val[feature].n >= 0
        /\ \A feature \in EXPECTED_FEATURES :
               ret.val[feature].d = ret.val["budget"].d
        /\ SumOver([feature \in EXPECTED_FEATURES |-> ret.val[feature].n],
                   Features, 1) = ret.val["budget"].d
        /\ (call.custom_weights.t = "none" \/ finite) =>
               IF call.custom_weights.t # "none" /\ valid
               THEN \A feature \in EXPECTED_FEATURES :
                        ret.val[feature].n * total
                            = given[feature].n * ret.val[feature].d
               ELSE ret.val = [feature \in EXPECTED_FEATURES |->
                                  Weight(WEIGHT_CONFIG[feature], 100)]

\* C5's failing case: an override with inf under budget has returned NaN
\* for budget and 0.0 for the rest
C5_InfGivesNaN ==
    /\ call.fn = "_select_weights"
    /\ call.custom_weights = Override("budget", PyInf, 1)
    /\ ret.kind = "ok"
    /\ ret.val["budget"].nan
    /\ \A feature \in EXPECTED_FEATURES \ {"budget"} :
           ~ret.val[feature].nan /\ ret.val[feature].n = 0

(***************************************************************************)
(* calculate_provider_scores.                                              *)
(***************************************************************************)
\* C7: for a user_input whose five features are each absent or one of low,
\* medium, high (and whose team_expertise, if any, is a string), scored
\* with the default weights and no region, calculate_provider_scores
\* returns a mapping with exactly the keys aws, azure, gcp, every score a
\* number between 0 and 10.
C7_ScoresBounded ==
    (/\ call.fn = "calculate_provider_scores"
     /\ ret # Pending
     /\ call.user_input.t = "dict"
     /\ \A feature \in EXPECTED_FEATURES \cap DOMAIN call.user_input.d :
            call.user_input.d[feature] \in Levels
     /\ Get(call.user_input.d, "team_expertise").t \in {"none", "str"}
     /\ call.custom_weights = NoneArg
     /\ call.region = PyNone) =>
    /\ ret.kind = "ok"
    /\ DOMAIN ret.val = {"aws", "azure", "gcp"}
    /\ \A provider_id \in DOMAIN ret.val :
           /\ ~ret.val[provider_id].nan
           /\ 0 <= ret.val[provider_id].v
           /\ ret.val[provider_id].v <= 10 * 10000

\* C7's case: the empty request has been scored 5.0333, 4.5667, 5.3333
C7_EmptyRequestScored ==
    /\ call.fn = "calculate_provider_scores"
    /\ call.user_input = PyDict(EmptyDict)
    /\ call.custom_weights = NoneArg
    /\ call.region = PyNone
    /\ ret = Ok([aws |-> Score(50333), azure |-> Score(45667), gcp |-> Score(53333)])

\* C8 as the spec words it: with region one of india, us, europe every
\* provider's score is its score for the same request without a region
\* plus the region's modifier for the provider; with any other region, or
\* none, every score is the no-region score.  (NaN plus a modifier is NaN.)
C8_ModifierAdds ==
    (call.fn = "calculate_provider_scores" /\ ret # Pending /\ ret.kind = "ok") =>
    LET noregion == calculate_provider_scores(call.user_input, call.custom_weights,
                                              PyNone, featureOrder).val
        named    == call.region.t = "str" /\ call.region.s \in {"india", "us", "europe"}
        shifted(provider_id) ==
            IF noregion[provider_id].nan THEN ScoreNaN
            ELSE Score(noregion[provider_id].v
                       + 1000 * REGION_PROVIDER_MODIFIERS[call.region.s][provider_id])
    IN  IF named
        THEN \A provider_id \in Providers : ret.val[provider_id] = shifted(provider_id)
        ELSE ret.val = noregion

\* C8, amended: with region one of india, us, europe and budget not high
\* every provider's score is its no-region score plus the region's modifier
\* for the provider; with budget high this still holds of the provider with
\* the highest estimated cost, and of the others to within 0.0001 (the
\* penalty is taken off the rounded, shifted score and the result rounded
\* again).  With any other region, or none, every score is the no-region
\* score.
C8_ModifierAddsUpToRounding ==
    (call.fn = "calculate_provider_scores" /\ ret # Pending /\ ret.kind = "ok") =>
    LET noregion == calculate_provider_scores(call.user_input, call.custom_weights,
                                              PyNone, featureOrder).val
        named    == call.region.t = "str" /\ call.region.s \in {"india", "us", "europe"}
        high     == Get(call.user_input.d, "budget") = PyStr("high")
        cost(provider_id) == calculate_estimated_cost(call.user_input, provider_id).val
        dearest  == {p \in Providers : \A q \in Providers : cost(q) <= cost(p)}
        target(provider_id) ==
            noregion[provider_id].v
            + 1000 * REGION_PROVIDER_MODIFIERS[call.region.s][provider_id]
    IN  IF named
        THEN \A provider_id \in Providers :
                 /\ ret.val[provider_id].nan = noregion[provider_id].nan
                 /\ ~ret.val[provider_id].nan =>
                        /\ ret.val[provider_id].v - target(provider_id) \in {-1, 0, 1}
                        /\ (~high \/ provider_id \in dearest) =>
                               ret.val[provider_id].v = target(provider_id)
        ELSE ret.val = noregion

\* C8's case: budget high, scalability low, team_expertise low in india has
\* scored gcp 5.5480, where the no-region 5.4479 plus 0.1 is 5.5479, and
\* aws 4.8667, which is its no-region 4.6667 plus 0.2
C8_IndiaOffByOne ==
    /\ call.fn = "calculate_provider_scores"
    /\ call.user_input = PyDict(("budget" :> PyStr("high"))
                                @@ ("scalability" :> PyStr("low"))
                                @@ ("team_expertise" :> PyStr("low")))
    /\ call.custom_weights = NoneArg
    /\ call.region = PyStr("india")
    /\ ret.kind = "ok"
    /\ ret.val["gcp"] = Score(55480)
    /\ ret.val["aws"] = Score(48667)

\* C2 as the spec words it: with budget high, the provider with the highest
\* estimated cost scores strictly lower than it does for the same request
\* (same other preferences, team_expertise, weights and region) with budget
\* medium or low, for every valid combination of the other inputs (one
\* whose scores are numbers).
C2_HighBudgetScoresLower ==
    (/\ call.fn = "calculate_provider_scores"
     /\ ret # Pending
     /\ ret.kind = "ok"
     /\ Get(call.user_input.d, "budget") = PyStr("high")
     /\ \A provider_id \in Providers : ~ret.val[provider_id].nan) =>
    LET cost(provider_id) == calculate_estimated_cost(call.user_input, provider_id).val
        dearest == {p \in Providers : \A q \in Providers : cost(q) <= cost(p)}
        with(budget) ==
            calculate_provider_scores(
                PyDict(("budget" :> PyStr(budget)) @@ call.user_input.d),
                call.custom_weights, call.region, featureOrder).val
    IN  \A provider_id \in dearest : \A budget \in {"medium", "low"} :
            ret.val[provider_id].v < with(budget)[provider_id].v

\* C2, amended: with budget high, the score of the provider with the highest
\* estimated cost is, to within 0.0001, its score for the same request with
\* budget medium (low), plus the selected budget weight times the provider's
\* budget feature score times 1/3 (2/3), minus the penalty 0.2.  So it is
\* strictly lower, by exactly 0.2, when budget carries the weight 0, and
\* strictly higher under the default weights; this for every valid
\* combination of the other inputs (one whose scores are numbers).
C2_HighBudgetPenaltyAndGain ==
    (/\ call.fn = "calculate_provider_scores"
     /\ ret # Pending
     /\ ret.kind = "ok"
     /\ Get(call.user_input.d, "budget") = PyStr("high")
     /\ \A provider_id \in Providers : ~ret.val[provider_id].nan) =>
    LET cost(provider_id) == calculate_estimated_cost(call.user_input, provider_id).val
        dearest == {p \in Providers : \A q \in Providers : cost(q) <= cost(p)}
        with(budget) ==
            calculate_provider_scores(
                PyDict(("budget" :> PyStr(budget)) @@ call.user_input.d),
                call.custom_weights, call.region, featureOrder).val
        weight  == _select_weights(call.custom_weights, featureOrder).val["budget"]
        \* 9 * weight.d times (the difference of the scores plus the penalty),
        \* less 9 * weight.d times the gain, in ten-thousandths
        excess(provider_id, budget) ==
            9 * weight.d * (ret.val[provider_id].v - with(budget)[provider_id].v + 2000)
            - 10000 * weight.n * PROVIDER_CATALOG[provider_id]["budget"]
                    * (9 - QUALITATIVE_SCALE[budget])
    IN  /\ dearest # {}
        /\ \A provider_id \in dearest : \A budget \in {"medium", "low"} :
               /\ excess(provider_id, budget) <= 9 * weight.d
               /\ -excess(provider_id, budget) <= 9 * weight.d
               /\ weight.n = 0 =>
                      ret.val[provider_id].v = with(budget)[provider_id].v - 2000
               /\ call.custom_weights = NoneArg =>
                      ret.val[provider_id].v > with(budget)[provider_id].v

\* C2's case: budget high alone, under the default weights, has scored aws
\* (the dearest) 5.3333, above the 5.0333 of budget medium
C2_HighBudgetAlone ==
    /\ call.fn = "calculate_provider_scores"
    /\ call.user_input = PyDict(("budget" :> PyStr("high")))
    /\ call.custom_weights = NoneArg
    /\ call.region = PyNone
    /\ ret.kind = "ok"
    /\ ret.val["aws"] = Score(53333)

\* C6: for every provider, with the same weights and region, the score when
\* all five preferences are high is strictly greater than the score when
\* all five are low, and before the cost penalty no provider's score is
\* lower for the all-high request than for the all-low one.
C6_AllHighAboveAllLow ==
    (/\ call.fn = "calculate_provider_scores"
     /\ ret # Pending
     /\ ret.kind = "ok"
     /\ \A feature \in EXPECTED_FEATURES :
            Get(call.user_input.d, feature) = PyStr("high")) =>
    LET lowered == [key \in DOMAIN call.user_input.d |->
                       IF key \in EXPECTED_FEATURES THEN PyStr("low")
                       ELSE call.user_input.d[key]]
        low     == calculate_provider_scores(PyDict(lowered), call.custom_weights,
                                             call.region, featureOrder).val
        weights == _select_weights(call.custom_weights, featureOrder)
        before(user_input) ==
            ScoresBeforePenalty(
                _validate_and_normalize_user_input(user_input, featureOrder).val,
                weights.val, weights.items, call.region)
        \* IEEE 754: an ordering that involves NaN does not hold
        less(x, y) == ~x.nan /\ ~y.nan /\ x.v < y.v
    IN  \A provider_id \in Providers :
            /\ less(low[provider_id], ret.val[provider_id])
            /\ ~less(before(call.user_input)[provider_id],
                     before(PyDict(lowered))[provider_id])

\* C6's failing case: all five high under an override with inf for budget
\* has scored NaN for every provider
C6_AllHighScoredNaN ==
    /\ call.fn = "calculate_provider_scores"
    /\ call.user_input = PyDict([feature \in EXPECTED_FEATURES |-> PyStr("high")])
    /\ call.custom_weights = Override("budget", PyInf, 1)
    /\ call.region = PyNone
    /\ ret = Ok([provider_id \in Providers |-> ScoreNaN])

(***************************************************************************)
(* compute_confidence.                                                     *)
(***************************************************************************)
\* C9: compute_confidence answers from the gap d between the highest and
\* the second-highest of the supplied scores alone, whoever holds them:
\* 0.0 and Low with fewer than two providers; else High iff d >= 1.5,
\* Moderate iff 0.8 <= d < 1.5, Low iff d < 0.8 (d being the difference of
\* the two doubles supplied), and the percentage min(d / 3.0 * 100, 100)
\* rounded to one decimal, between 0 and 100.
C9_ConfidenceFromGap ==
    (call.fn = "compute_confidence" /\ ret # Pending) =>
    LET provider_scores == call.provider_scores
        ids    == DOMAIN provider_scores
        level  == ret.val.confidence_level
        tenths == ret.val.confidence_percent
    IN  /\ ret.kind = "ok"
        /\ level \in {"High", "Moderate", "Low"}
        /\ 0 <= tenths /\ tenths <= 100 * 10
        \* exchanging the scores of any two providers (the exchanges make up
        \* every relabelling)
        /\ \A p, q \in ids :
               ProviderIndex(p) < ProviderIndex(q) =>
                   ret.val = compute_confidence(
                                 [r \in ids |->
                                     provider_scores[IF r = p THEN q
                                                     ELSE IF r = q THEN p ELSE r]])
        /\ IF Cardinality(ids) < 2
           THEN tenths = 0 /\ level = "Low"
           ELSE LET holder == CHOOSE p \in ids :
                                  \A q \in ids : provider_scores[q] <= provider_scores[p]
                    top    == provider_scores[holder]
                    second == Max({provider_scores[q] : q \in ids \ {holder}})
                    d      == FSub(D4(top), D4(second))
                    gap    == top - second  \* in ten-thousandths
                IN  /\ level = "High" <=> FCmp(d, Lit_1_5) >= 0
                    /\ level = "Moderate" <=>
                           FCmp(d, Lit_0_8) >= 0 /\ FCmp(d, Lit_1_5) < 0
                    /\ level = "Low" <=> FCmp(d, Lit_0_8) < 0
                    /\ gap > 15000 => level = "High"
                    /\ (8000 < gap /\ gap < 15000) => level = "Moderate"
                    /\ gap < 8000 => level = "Low"
                    /\ gap >= 30000 => tenths = 100 * 10
                    /\ gap < 30000 =>
                           30 * tenths - gap <= 15 /\ gap - 30 * tenths <= 15

\* C9's case: gcp alone ahead by 0.8 of aws and azure has been answered
\* Moderate at 26.7 percent
C9_AheadByEightTenths ==
    /\ call.fn = "compute_confidence"
    /\ call.provider_scores = [aws |-> 0, azure |-> 0, gcp |-> 8000]
    /\ ret = Ok([confidence_percent |-> 267, confidence_level |-> "Moderate"])

(***************************************************************************)
(* determine_service_model: the lookups are trimmed and case-insensitive.  *)
(***************************************************************************)
\* C15: for every dict whose industry and team_expertise are strings (or
\* absent), determine_service_model returns what it returns for the same
\* dict with both strings trimmed and lower-cased, and the reason of a
\* matched rule cites that trimmed, lower-cased key; industry "startup",
\* however padded or capitalised, gives PaaS with a reason citing startup.
C15_LookupsNormalized ==
    (/\ call.fn = "determine_service_model"
     /\ ret # Pending
     /\ call.user_input.t = "dict"
     /\ \A key \in DOMAIN call.user_input.d : call.user_input.d[key].t = "str") =>
    LET d         == call.user_input.d
        plain     == PyDict([key \in DOMAIN d |-> PyStr(PyLower(PyStrip(d[key].s)))])
        industry  == PyLower(PyStrip(Get(d, "industry").s))
        expertise == PyLower(PyStrip(Get(d, "team_expertise").s))
    IN  /\ ret = determine_service_model(plain)
        /\ ("industry" \in DOMAIN d /\ industry \in SERVICE_MODEL_RULES.industry) =>
               ret.reason = "Matched industry rule: " \o industry
                            \o ". Recommended service model: "
                            \o ret.service_model \o "."
        /\ (/\ ~("industry" \in DOMAIN d /\ industry \in SERVICE_MODEL_RULES.industry)
            /\ "team_expertise" \in DOMAIN d
            /\ expertise \in SERVICE_MODEL_RULES.team_expertise) =>
               ret.reason = "Matched team_expertise rule: " \o expertise
                            \o ". Recommended service model: "
                            \o ret.service_model \o "."
        /\ ("industry" \in DOMAIN d /\ industry = "startup") =>
               /\ ret.service_model = "PaaS"
               /\ ret.reason = "Matched industry rule: startup. "
                               \o "Recommended service model: PaaS."

\* C15's case: a padded, capitalised Startup beside team_expertise medium
\* has returned PaaS, citing startup
C15_PaddedStartupIsPaaS ==
    /\ call.fn = "determine_service_model"
    /\ call.user_input = PyDict(("industry" :> PyStr(" Startup "))
                                @@ ("team_expertise" :> PyStr("medium")))
    /\ ret = ServiceModelResult("PaaS",
                 "Matched industry rule: startup. Recommended service model: PaaS.")

(***************************************************************************)
(* calculate_provider_scores: the three stages of a score.                 *)
(***************************************************************************)
\* C17: for every valid user_input (features absent or low/medium/high,
\* team_expertise absent or a string), weights that select to numbers and
\* any region, every provider's score is built in three stages, each
\* rounded to 4 decimals: base = the sum over the five features of
\* weight * intensity * provider feature score; then base + modifier when
\* region is a key of the modifier table (region "US" is not); then, if and
\* only if budget is exactly "high", that less 0.2 * cost / max cost, so
\* the most expensive provider loses exactly 0.2 and every other provider
\* a positive amount below 0.2; with any other budget nothing is taken off.
\* Scores are in ten-thousandths; a value x rounds to r when |r - x| <= 1/2.
C17_ThreeStages ==
    (/\ call.fn = "calculate_provider_scores"
     /\ ret # Pending
     /\ call.user_input.t = "dict"
     /\ \A feature \in EXPECTED_FEATURES \cap DOMAIN call.user_input.d :
            call.user_input.d[feature] \in Levels
     /\ Get(call.user_input.d, "team_expertise").t \in {"none", "str"}
     /\ _select_weights(call.custom_weights, featureOrder).kind = "ok"
     /\ \A feature \in EXPECTED_FEATURES :
            ~_select_weights(call.custom_weights, featureOrder).val[feature].nan) =>
    LET d          == call.user_input.d
        weights    == _select_weights(call.custom_weights, featureOrder).val
        level(f)   == IF f \in DOMAIN d THEN d[f].s ELSE "medium"
        term(p, f) == weights[f].n * QUALITATIVE_SCALE[level(f)] * PROVIDER_CATALOG[p][f]
        num(p)     == term(p, "budget") + term(p, "scalability") + term(p, "security")
                      + term(p, "ease_of_use") + term(p, "free_tier")
        den        == 9 * weights["budget"].d
        recognized == call.region.t = "str"
                      /\ call.region.s \in {"india", "us", "europe"}
        modifier(p) == IF recognized
                       THEN 1000 * REGION_PROVIDER_MODIFIERS[call.region.s][p]
                       ELSE 0
        costs      == CostsFrom(call.user_input, 1)
        cost(p)    == costs[ProviderIndex(p)].val
        max_cost   == Max({costs[i].val : i \in 1..Len(costs)})
        abs(x)     == IF x < 0 THEN -x ELSE x
        high       == "budget" \in DOMAIN d /\ d["budget"] = PyStr("high")
    IN  /\ ret.kind = "ok"
        /\ DOMAIN ret.val = Providers
        /\ \A p \in Providers :
               \E base \in {(10000 * num(p)) \div den, (10000 * num(p)) \div den + 1} :
                   LET final == ret.val[p].v
                       lost  == base + modifier(p) - final
                   IN  /\ ~ret.val[p].nan
                       /\ 2 * abs(base * den - 10000 * num(p)) <= den
                       /\ ~high => lost = 0
                       /\ high =>
                              /\ abs(2 * lost * max_cost - 4000 * cost(p)) <= max_cost
                              /\ cost(p) = max_cost => lost = 2000
                              /\ cost(p) < max_cost => (0 < lost /\ lost < 2000)

\* C17's case: budget high, scalability and team_expertise low, region
\* india: gcp, not the most expensive, has lost 0.1687 of 5.6167 + 0.1
C17_IndiaHighBudgetScored ==
    /\ call.fn = "calculate_provider_scores"
    /\ call.user_input = PyDict(("budget" :> PyStr("high"))
                                @@ ("scalability" :> PyStr("low"))
                                @@ ("team_expertise" :> PyStr("low")))
    /\ call.custom_weights = NoneArg
    /\ call.region = PyStr("india")
    /\ ret.kind = "ok"
    /\ ret.val["gcp"] = Score(55480)

(***************************************************************************)
(* generate_explanation: determinism across processes.                     *)
(***************************************************************************)
\* C16: generate_explanation returns, for the arguments of the call, the
\* same line sequence in every process: the lines returned under this
\* process's iteration order of the feature-name set are the lines every
\* other iteration order gives, ties on influence included, so neither the
\* three criteria named nor their order depend on the iteration order.
C16_SameLinesInEveryProcess ==
    (call.fn = "generate_explanation" /\ ret # Pending)
    => \A order \in FeatureOrders :
           ret.val = generate_explanation(call.user_input, call.provider_scores,
                                          call.selected_provider,
                                          call.service_model_result, order)

\* a process that iterates the feature names from budget on explains a
\* request of all-medium preferences by budget, security, scalability
C16_AllMediumNamesBudgetFirst ==
    /\ call.fn = "generate_explanation"
    /\ call.user_input = PyDict([k \in {"budget", "scalability", "security"} |->
                                    PyStr("medium")])
    /\ call.selected_provider = PyStr("gcp")
    /\ call.provider_scores.t = "dict"
    /\ call.provider_scores.d # EmptyDict
    /\ ~call.provider_scores.d["gcp"].nan
    /\ featureOrder = Features
    /\ ret # Pending
    /\ ret.val[1] = "GCP was selected (score: 6.2222) based on your priorities: "
                    \o "budget, security, scalability."

(***************************************************************************)
(* generate_explanation: fallback sentences.                               *)
(***************************************************************************)
\* the call names one of the catalog providers
C13_CatalogProvider ==
    /\ call.selected_provider.t = "str"
    /\ call.selected_provider.s \in {"aws", "azure", "gcp"}

\* the line that closes every explanation: the reason of
\* service_model_result, or the default line when there is no reason
C13_LastLine ==
    IF /\ call.service_model_result # NoneArg
       /\ call.service_model_result # PyDict(EmptyDict)
       /\ call.service_model_result.reason # ""
    THEN call.service_model_result.reason
    ELSE "Service model: default recommendation applied."

\* C13 as stated: when selected_provider is missing or not a catalog
\* provider, or provider_scores is empty or not a mapping, the explanation
\* is one fallback sentence followed by the service-model reason line.
C13_FallbackShortCircuit ==
    (/\ call.fn = "generate_explanation"
     /\ ret # Pending
     /\ \/ ~C13_CatalogProvider
        \/ call.provider_scores.t # "dict"
        \/ call.provider_scores.d = EmptyDict)
    => /\ Len(ret.val) = 2
       /\ ret.val[1] \in
              {"Provider recommendation explanation is unavailable.",
               "Provider selection could not be explained (unknown or missing provider)."}
       /\ ret.val[2] = C13_LastLine

\* C13 (amended): when provider_scores is not a mapping, or selected_provider
\* is missing or not a catalog provider, the explanation is one fallback
\* sentence followed by the service-model reason line as the last line; an
\* empty provider_scores mapping with a catalog provider is no fallback: the
\* provider part is the selection sentence without a score, naming the
\* provider, and the strengths line, again followed by the reason line.
C13_FallbackUnlessProviderKnown ==
    (call.fn = "generate_explanation" /\ ret # Pending)
    => /\ ret.val[Len(ret.val)] = C13_LastLine
       /\ call.provider_scores.t # "dict"
          => ret.val = <<"Provider recommendation explanation is unavailable.",
                         C13_LastLine>>
       /\ (call.provider_scores.t = "dict" /\ ~C13_CatalogProvider)
          => ret.val = <<"Provider selection could not be explained (unknown or missing provider).",
                         C13_LastLine>>
       /\ (call.provider_scores = PyDict(EmptyDict) /\ C13_CatalogProvider)
          => /\ Len(ret.val) = 3
             /\ LET opening == PyUpper(call.selected_provider.s)
                                \o " was selected based on your priorities: "
                IN  SubSeq(ret.val[1], 1, Len(opening)) = opening
             /\ SubSeq(ret.val[2], 1, 15) = "Key strengths: "

\* an unknown provider is explained by the fallback sentence and the reason
C13_UnknownProviderFallsBack ==
    /\ call.fn = "generate_explanation"
    /\ call.selected_provider = PyStr("ibm")
    /\ call.provider_scores.t = "dict"
    /\ call.provider_scores.d # EmptyDict
    /\ ret # Pending
    /\ ret.val = <<"Provider selection could not be explained (unknown or missing provider).",
                   "Matched industry rule: healthcare. Recommended service model: PaaS.">>

(***************************************************************************)
(* enhance_explanation_with_ai: fail open.                                 *)
(***************************************************************************)
\* the feature flag is on and a credential is configured
C12_Configured ==
    /\ call.environ.ENABLE_AI_EXPLANATION
           \in {PyStr("true"), PyStr(" True "), PyStr("1"), PyStr("YES")}
    /\ call.environ.GEMINI_API_KEY \in {PyStr("k3y"), PyStr(" k3y ")}

\* the external call succeeded: it raised nothing and its reply carries a
\* text at candidates[0].content.parts[0].text that is not empty or blank
C12_CallSucceeded ==
    /\ urlopen.reply.kind = "response"
    /\ \E text \in ReplyTexts :
           /\ urlopen.reply.data = GeminiReply(JStr(text))
           /\ PyStrip(text) # ""

\* C12: enhance_explanation_with_ai makes at most one call of urlopen and
\* never raises.  With the flag off or no credential configured it makes
\* no call and returns the explanation lines joined by blank lines; with
\* both set, when the call fails (urlopen, the read or the parse raises, or
\* the reply holds no text where one is expected, or an empty or blank one)
\* it returns the same joined text.
C12_FailsOpen ==
    call.fn = "enhance_explanation_with_ai"
    => /\ urlopen.calls <= 1
       /\ Done
          => /\ ret.kind = "ok"
             /\ ~C12_Configured
                => /\ urlopen.calls = 0
                   /\ ret.val = Join(call.original_explanation, "\n\n")
             /\ (C12_Configured /\ ~C12_CallSucceeded)
                => ret.val = Join(call.original_explanation, "\n\n")

\* the flag is on, the key is set, the one call of urlopen is answered with
\* a text of two blanks: the three lines of a gcp explanation are answered
\* with the empty string
C12_BlankReplyReturnsEmptyText ==
    /\ call.fn = "enhance_explanation_with_ai"
    /\ call.environ = EnhancerOn
    /\ Len(call.original_explanation) = 3
    /\ urlopen = [calls |-> 1, reply |-> Replied(GeminiReply(JStr("  ")))]
    /\ ret = Enhanced("ok", "", NoExc)

(***************************************************************************)
(* POST /recommend.                                                        *)
(***************************************************************************)
\* the call is a POST of a JSON body that has been answered
RouteAnswered ==
    /\ call.fn = "recommend"
    /\ call.request.method = "POST"
    /\ call.request.is_json
    /\ Done

\* the body passes _validate_payload and _validate_field_values
RouteAccepts ==
    /\ _validate_payload(call.request.data) = ""
    /\ _validate_field_values(call.request.data) = ""

\* C11: a request answered with status 400 was rejected before
\* calculate_provider_scores was invoked: the handler has called no engine
\* function (neither the scorer nor determine_service_model,
\* generate_explanation, enhance_explanation_with_ai) and the body holds the
\* error message only, no scores, provider or costs.
C11_RejectedBeforeScoring ==
    (call.fn = "recommend" /\ Done /\ ret.kind = "ok" /\ ret.status = 400)
    => /\ ret.calls = <<>>
       /\ DOMAIN ret.body = {"error"}

\* a body without its industry is rejected before the engine is called
C11_MissingIndustryRejected ==
    /\ RouteAnswered
    /\ "industry" \notin DOMAIN call.request.data.d
    /\ ret = Response(400, [error |-> "Missing required fields: industry."], <<>>)

\* C18: in every 200 response to a POST the recommended provider's final
\* score is greater than or equal to every other provider's final score, and
\* of the providers that share the maximum it is the first in the order aws,
\* azure, gcp.
C18_ArgMaxFirstInOrder ==
    (RouteAnswered /\ ret.kind = "ok" /\ ret.status = 200)
    => LET scores == ret.body.final_scores
           best   == ret.body.recommended_provider
       IN  /\ best \in {"aws", "azure", "gcp"}
           /\ \A other \in {"aws", "azure", "gcp"} :
                  /\ ~scores[best].nan
                  /\ ~scores[other].nan
                  /\ scores[best].v >= scores[other].v
           /\ \A i, j \in 1..3 :
                  (/\ <<"aws", "azure", "gcp">>[j] = best
                   /\ scores[<<"aws", "azure", "gcp">>[i]] = scores[best])
                  => j <= i

\* with security weighted 2 and scalability 1, aws and azure tie ahead of
\* gcp and aws is recommended
C18_TieGoesToAws ==
    /\ RouteAnswered
    /\ call.request.data = MediumBody
    /\ call.request.weights = TieWeights
    /\ call.request.region = PyNone
    /\ ret.kind = "ok"
    /\ ret.status = 200
    /\ ret.body.final_scores["aws"] = Score(62222)
    /\ ret.body.final_scores["azure"] = Score(62222)
    /\ ret.body.final_scores["gcp"] = Score(42222)
    /\ ret.body.recommended_provider = "aws"

\* C19: every POST whose body passes _validate_payload and
\* _validate_field_values (values accepted after trimming and lower-casing
\* included), when it is answered, is answered with status 200, a
\* recommended provider among aws, azure, gcp, a service model among IaaS,
\* PaaS, SaaS, and scores and costs for the three providers; never with 400
\* or 500.
C19_AcceptedGets200 ==
    (RouteAnswered /\ ret.kind = "ok" /\ RouteAccepts)
    => /\ ret.status = 200
       /\ ret.body.recommended_provider \in {"aws", "azure", "gcp"}
       /\ ret.body.recommended_service_model \in {"IaaS", "PaaS", "SaaS"}
       /\ DOMAIN ret.body.final_scores = {"aws", "azure", "gcp"}
       /\ DOMAIN ret.body.estimated_costs = {"aws", "azure", "gcp"}

\* budget "High" passes the route's validation and is rejected by the
\* engine's: the answer is a 400 that carries the engine's message
C19_HighPassesRouteFailsEngine ==
    /\ RouteAnswered
    /\ RouteAccepts
    /\ call.request.data.d["budget"] = PyStr("High")
    /\ ret = Response(400,
                      [error |-> "Invalid value for 'budget': 'High'. "
                                 \o "Expected one of: ['high', 'low', 'medium']"],
                      <<"calculate_provider_scores">>)

\* C20: in every 200 response to a POST the service model is PaaS when the
\* industry (trimmed, lower-cased) is healthcare, and otherwise the one of
\* team_expertise (high: IaaS, medium: PaaS, low: SaaS) whatever the
\* industry; the reason given is never that of the default branch.
C20_ServiceModelThroughRoute ==
    (RouteAnswered /\ ret.kind = "ok" /\ ret.status = 200)
    => LET industry  == PyLower(PyStrip(call.request.data.d["industry"].s))
           expertise == PyLower(PyStrip(call.request.data.d["team_expertise"].s))
           reason    == ret.body.explanation[Len(ret.body.explanation)]
       IN  /\ ret.body.recommended_service_model =
                  IF industry = "healthcare" THEN "PaaS"
                  ELSE [high |-> "IaaS", medium |-> "PaaS", low |-> "SaaS"][expertise]
           /\ reason = IF industry = "healthcare"
                       THEN "Matched industry rule: healthcare. "
                            \o "Recommended service model: PaaS."
                       ELSE "Matched team_expertise rule: " \o expertise
                            \o ". Recommended service model: "
                            \o ret.body.recommended_service_model \o "."

\* a fintech team of low expertise is recommended SaaS
C20_FintechLowIsSaaS ==
    /\ RouteAnswered
    /\ RouteAccepts
    /\ call.request.data.d["industry"] = PyStr("fintech")
    /\ call.request.data.d["team_expertise"] = PyStr("low")
    /\ ret.kind = "ok"
    /\ ret.status = 200
    /\ ret.body.recommended_service_model = "SaaS"

(***************************************************************************)
(* No hidden mutable state.                                                *)
(***************************************************************************)
\* C14: after any sequence of calls to calculate_provider_scores,
\* calculate_estimated_cost, determine_service_model and
\* generate_explanation the five tables are the ones config.py defines and
\* the caller's user_input and custom_weights are what they were at the
\* first call, and every later call of calculate_provider_scores with the
\* first call's arguments returns what the first call returned, whatever was
\* called in between.
C14_NoHiddenState ==
    /\ heap.PROVIDER_CATALOG = ProviderCatalog
    /\ heap.WEIGHT_CONFIG = WEIGHT_CONFIG
    /\ heap.REGION_PROVIDER_MODIFIERS = REGION_PROVIDER_MODIFIERS
    /\ heap.MOCK_PRICING = MOCK_PRICING
    /\ heap.SERVICE_MODEL_RULES = SERVICE_MODEL_RULES
    /\ scored # Pending
       => /\ heap.user_input = scored.call.user_input
          /\ heap.custom_weights = scored.call.custom_weights
          /\ (call.fn = "calculate_provider_scores" /\ ret # Pending)
             => /\ call = scored.call
                /\ ret = scored.ret

\* a request is scored under an override, explained, and scored again with
\* the same result
C14_ScoredAgainAfterExplanation ==
    /\ scored # Pending
    /\ scored.since = <<"generate_explanation", "calculate_provider_scores">>
    /\ scored.call.custom_weights = Override("budget", PyInt(1), MaxScoreWeight + 1)
    /\ scored.call.region = PyStr("india")
    /\ call.fn = "calculate_provider_scores"
    /\ ret = scored.ret
    /\ ret.kind = "ok"

====
